---- MODULE Spec2Model ----
(***************************************************************************)
(* Model of the VISTA backend agent turn (POST /api/agent): the planner    *)
(* call, the heuristic intent resolver (inferToolFromText), the tool       *)
(* executor (executeToolCall) and the reply assembly.                      *)
(*                                                                         *)
(* The handler modelled is the one of src/server.js built on the           *)
(* /v1/responses planner call (lines 105-1254, the largest variant).       *)
(*                                                                         *)
(* Text is modelled as TLA+ strings, one character per position.  The code *)
(* points U+4E00..U+9FA5 that the source's patterns mention are written as *)
(* one reserved ASCII character each (definitions U8FC7 .. U732B below).   *)
(***************************************************************************)
EXTENDS Integers, Sequences, FiniteSets, TLC

(***************************************************************************)
(* Bounds of the model.                                                    *)
(***************************************************************************)
\* largest number of images an adapter answers with
MaxImages == 2
\* largest number of tool invocations in one planner response
MaxCalls == 2

(***************************************************************************)
(* Characters.                                                             *)
(***************************************************************************)
U8FC7 == "#"
U53BB == "$"
U6628 == "%"
U5929 == "&"
U524D == "*"
U4E0A == "+"
U5468 == "="
U6C14 == "~"
U641C == "@"
U7D22 == "^"
U627E == "<"
U56FE == ">"
U7247 == "|"
U7167 == "/"
U751F == "{"
U6210 == "}"
U753B == "["
U521B == "]"
U4F5C == "!"
U5317 == "("
U4EAC == ")"
U732B == ";"

CJK == {U8FC7, U53BB, U6628, U5929, U524D, U4E0A, U5468, U6C14, U641C, U7D22,
        U627E, U56FE, U7247, U7167, U751F, U6210, U753B, U521B, U4F5C, U5317,
        U4EAC, U732B}

UpperAlphabet == "ABCDEFGHIJKLMNOPQRSTUVWXYZ"
LowerAlphabet == "abcdefghijklmnopqrstuvwxyz"
DigitAlphabet == "0123456789"

Ch(s, i) == SubSeq(s, i, i)

IndexIn(alphabet, c) ==
  IF \E i \in 1..Len(alphabet) : Ch(alphabet, i) = c
  THEN CHOOSE i \in 1..Len(alphabet) : Ch(alphabet, i) = c
  ELSE 0

IsUpper(c) == IndexIn(UpperAlphabet, c) > 0
IsLower(c) == IndexIn(LowerAlphabet, c) > 0
IsDigit(c) == IndexIn(DigitAlphabet, c) > 0
IsSpace(c) == c = " "
IsAlpha(c) == IsUpper(c) \/ IsLower(c)
IsWordChar(c) == IsAlpha(c) \/ IsDigit(c) \/ c = "_"
IsAlphaSpace(c) == IsAlpha(c) \/ IsSpace(c)
IsCJKAlphaSpace(c) == c \in CJK \/ IsAlpha(c) \/ IsSpace(c)

(***************************************************************************)
(* String.prototype functions used by the resolver.                        *)
(***************************************************************************)
RECURSIVE ToLowerFrom(_, _)
ToLowerFrom(s, i) ==
  IF i > Len(s) THEN ""
  ELSE LET c == Ch(s, i)
           k == IndexIn(UpperAlphabet, c)
       IN (IF k > 0 THEN Ch(LowerAlphabet, k) ELSE c) \o ToLowerFrom(s, i + 1)

ToLowerCase(s) == ToLowerFrom(s, 1)

Trim(s) ==
  LET keep == {i \in 1..Len(s) : ~IsSpace(Ch(s, i))}
  IN IF keep = {} THEN ""
     ELSE LET lo == CHOOSE i \in keep : \A j \in keep : i <= j
              hi == CHOOSE i \in keep : \A j \in keep : i >= j
          IN SubSeq(s, lo, hi)

StartsAt(s, p, i) ==
  /\ i >= 1
  /\ i + Len(p) - 1 <= Len(s)
  /\ SubSeq(s, i, i + Len(p) - 1) = p

Includes(s, p) == \E i \in 1..Len(s) : StartsAt(s, p, i)

\* RegExp.test for a pattern that is an alternation of literals.
TestAny(s, alts) == \E k \in 1..Len(alts) : Includes(s, alts[k])

\* String.replace(/a|b|.../g, ""): at each position the first alternative
\* (in pattern order) that matches is removed, and the scan resumes after it.
RECURSIVE RemoveFrom(_, _, _)
RemoveFrom(s, alts, i) ==
  IF i > Len(s) THEN ""
  ELSE LET m == {k \in 1..Len(alts) : StartsAt(s, alts[k], i)}
       IN IF m = {} THEN Ch(s, i) \o RemoveFrom(s, alts, i + 1)
          ELSE LET k == CHOOSE a \in m : \A b \in m : a <= b
               IN RemoveFrom(s, alts, i + Len(alts[k]))

RemoveAll(s, alts) == RemoveFrom(s, alts, 1)

AllAlphaSpace(s, lo, hi) == \A j \in lo..hi : IsAlphaSpace(Ch(s, j))
AllCJKAlphaSpace(s, lo, hi) == \A j \in lo..hi : IsCJKAlphaSpace(Ch(s, j))

MinOf(S) == CHOOSE a \in S : \A b \in S : a <= b
MaxOf(S) == CHOOSE a \in S : \A b \in S : a >= b

(***************************************************************************)
(* parseISODate: /\b(\d{4}-\d{2}-\d{2})\b/                                  *)
(***************************************************************************)
IsoAt(s, i) ==
  /\ i >= 1
  /\ i + 9 <= Len(s)
  /\ \A j \in {0, 1, 2, 3, 5, 6, 8, 9} : IsDigit(Ch(s, i + j))
  /\ Ch(s, i + 4) = "-"
  /\ Ch(s, i + 7) = "-"
  /\ (i = 1 \/ ~IsWordChar(Ch(s, i - 1)))
  /\ (i + 9 = Len(s) \/ ~IsWordChar(Ch(s, i + 10)))

parseISODate_Never(text) == ""

parseISODate(text) ==
  LET hits == {i \in 1..Len(text) : IsoAt(text, i)}
  IN IF hits = {} THEN "" ELSE SubSeq(text, MinOf(hits), MinOf(hits) + 9)

(***************************************************************************)
(* formatDateOffset: new Date(); setDate(getDate() + days); YYYY-MM-DD.    *)
(* A date is a record [y, m, d] of the local calendar of the server.     *)
(***************************************************************************)
IsLeap(y) == (y % 4 = 0 /\ y % 100 # 0) \/ y % 400 = 0

DaysInMonth_NoLeap(y, m) ==
  IF m = 2 THEN 28
  ELSE IF m \in {4, 6, 9, 11} THEN 30 ELSE 31

DaysInMonth(y, m) ==
  IF m = 2 THEN (IF IsLeap(y) THEN 29 ELSE 28)
  ELSE IF m \in {4, 6, 9, 11} THEN 30 ELSE 31

\* Date.prototype.setDate with a day of month outside the month: the date
\* rolls into the neighbouring months (and years).
RECURSIVE SetDate(_, _, _)
SetDate(y, m, d) ==
  IF d < 1
  THEN (IF m = 1 THEN SetDate(y - 1, 12, d + 31)
        ELSE SetDate(y, m - 1, d + DaysInMonth(y, m - 1)))
  ELSE IF d > DaysInMonth(y, m)
  THEN (IF m = 12 THEN SetDate(y + 1, 1, d - 31)
        ELSE SetDate(y, m + 1, d - DaysInMonth(y, m)))
  ELSE [y |-> y, m |-> m, d |-> d]

\* String(n).padStart(2, "0")
PadStart2(n) == IF n < 10 THEN "0" \o ToString(n) ELSE ToString(n)

formatDateOffset(now, days) ==
  LET t == SetDate(now.y, now.m, now.d + days)
  IN ToString(t.y) \o "-" \o PadStart2(t.m) \o "-" \o PadStart2(t.d)

(***************************************************************************)
(* extractCity                                                             *)
(***************************************************************************)
\* /\bin\s+([a-z\s]+)$/i
InMatchAt(text, i) ==
  /\ StartsAt(text, "in", i)
  /\ (i = 1 \/ ~IsWordChar(Ch(text, i - 1)))
  /\ i + 3 <= Len(text)
  /\ IsSpace(Ch(text, i + 2))
  /\ AllAlphaSpace(text, i + 3, Len(text))

\* /([a-z\s]+)\s+weather/i : group start s, "weather" at w
WeatherMatchAt(text, s, w) ==
  /\ s >= 1
  /\ s <= w - 2
  /\ StartsAt(text, "weather", w)
  /\ IsSpace(Ch(text, w - 1))
  /\ AllAlphaSpace(text, s, w - 1)

\* /([\u4e00-\u9fa5A-Za-z\s]+)\u5929\u6c14/ : group start s, the two
\* characters U+5929 U+6C14 at w
ZhMatchAt(text, s, w) ==
  /\ s >= 1
  /\ s <= w - 1
  /\ StartsAt(text, U5929 \o U6C14, w)
  /\ AllCJKAlphaSpace(text, s, w - 1)

extractCity(text) ==
  LET n == Len(text)
      inHits == {i \in 1..n : InMatchAt(text, i)}
      wStarts == {s \in 1..n : \E w \in 1..n : WeatherMatchAt(text, s, w)}
      zStarts == {s \in 1..n : \E w \in 1..n : ZhMatchAt(text, s, w)}
  IN IF inHits # {}
     THEN Trim(SubSeq(text, MinOf(inHits) + 3, n))
     ELSE IF wStarts # {}
     THEN LET s == MinOf(wStarts)
              w == MaxOf({v \in 1..n : WeatherMatchAt(text, s, v)})
          IN Trim(SubSeq(text, s, w - 2))
     ELSE IF zStarts # {}
     THEN LET s == MinOf(zStarts)
              w == MaxOf({v \in 1..n : ZhMatchAt(text, s, v)})
          IN Trim(SubSeq(text, s, w - 1))
     ELSE ""

(***************************************************************************)
(* inferToolFromText                                                       *)
(***************************************************************************)
HistoryKeywords ==
  <<"yesterday", "last week", "last 7 days", U8FC7 \o U53BB, U6628 \o U5929,
    U524D \o U5929, U4E0A \o U5468>>

SearchKeywords ==
  <<"show me", "search", "find", "image", "picture", "photo", U641C,
    U641C \o U7D22, U627E, U56FE, U56FE \o U7247, U7167 \o U7247>>

WeatherKeywords_None == <<>>

WeatherKeywords == <<"weather", U5929 \o U6C14>>

SearchStripLatin ==
  <<"show me", "search", "find", "images of", "image of", "pictures of",
    "picture of", "photos of", "photo of">>

SearchStripCJK ==
  <<U641C, U641C \o U7D22, U627E, U56FE \o U7247, U7167 \o U7247, U56FE>>

GenerateKeywords ==
  <<"generate", "create", "make", "draw", U751F \o U6210, U753B,
    U521B \o U4F5C>>

NoInference == [kind |-> "null", reply |-> "", tools |-> <<>>]
InferReply(r) == [kind |-> "reply", reply |-> r, tools |-> <<>>]
InferTools(t) == [kind |-> "tools", reply |-> "", tools |-> <<t>>]

\* a || b on strings: the first operand unless it is the empty string
Or(a, b) == IF a # "" THEN a ELSE b

wantsHistory(text) == TestAny(text, HistoryKeywords)
wantsSearch(text) == TestAny(text, SearchKeywords)
wantsGenerate(text) == TestAny(text, GenerateKeywords)

historyDate(text, now) ==
  Or(parseISODate(text),
     Or(IF Includes(text, "yesterday") \/ Includes(text, U6628 \o U5929)
        THEN formatDateOffset(now, -1) ELSE "",
        Or(IF Includes(text, U524D \o U5929)
           THEN formatDateOffset(now, -2) ELSE "",
           IF Includes(text, "last week") \/ Includes(text, U4E0A \o U5468)
           THEN formatDateOffset(now, -7) ELSE "")))

inferHistory_NoDateCheck(text, now) ==
  LET city == extractCity(text)
      date == historyDate(text, now)
  IN IF city = "" THEN InferReply("Which city?")
     ELSE InferTools([name |-> "get_weather_history",
                      args |-> [city |-> city, date |-> date]])

inferHistory(text, now) ==
  LET city == extractCity(text)
      date == historyDate(text, now)
  IN IF city = "" THEN InferReply("Which city?")
     ELSE IF date = "" THEN InferReply("Which date should I check?")
     ELSE InferTools([name |-> "get_weather_history",
                      args |-> [city |-> city, date |-> date]])

searchQuery(text) ==
  Trim(RemoveAll(RemoveAll(text, SearchStripLatin), SearchStripCJK))

inferSearch_NoEmptyCheck(text, state) ==
  InferTools([name |-> "search_library",
              args |-> [query |-> searchQuery(text),
                        ratio |-> Or(state.preferred_ratio,
                                     Or(state.ratio, "1:1"))]])

inferSearch(text, state) ==
  LET query == searchQuery(text)
  IN IF query = "" THEN InferReply("What should I search for?")
     ELSE InferTools([name |-> "search_library",
                      args |-> [query |-> query,
                                ratio |-> Or(state.preferred_ratio,
                                             Or(state.ratio, "1:1"))]])

generatePrompt(text) == Trim(RemoveAll(text, GenerateKeywords))

inferGenerate_NoEmptyCheck(text, state) ==
  InferTools([name |-> "generate_ai",
              args |-> [prompt |-> generatePrompt(text),
                        aspect_ratio |-> Or(state.preferred_ratio,
                                            Or(state.ai_ratio, "1:1"))]])

inferGenerate(text, state) ==
  LET prompt == generatePrompt(text)
  IN IF prompt = "" THEN InferReply("What should I generate?")
     ELSE InferTools([name |-> "generate_ai",
                      args |-> [prompt |-> prompt,
                                aspect_ratio |-> Or(state.preferred_ratio,
                                                    Or(state.ai_ratio, "1:1"))]])

\* The state object after inferToolFromText ran on it.  The function
\* receives the caller's object (or a fresh {} when the request has none),
\* reads state?.preferred_ratio, state?.ratio and state?.ai_ratio, and has
\* no assignment to it or to a field of it.
StateAfterInfer_DefaultStored(message, state) ==
  [state EXCEPT !.preferred_ratio = Or(@, "1:1")]

StateAfterInfer(message, state) == state

inferToolFromText_GenerateFirst(message, state, now) ==
  LET text == Trim(ToLowerCase(message))
  IN IF text = "" THEN NoInference
     ELSE IF wantsGenerate(text) THEN inferGenerate(text, state)
     ELSE IF wantsHistory(text) THEN inferHistory(text, now)
     ELSE IF wantsSearch(text) /\ ~TestAny(text, WeatherKeywords)
     THEN inferSearch(text, state)
     ELSE NoInference

inferToolFromText(message, state, now) ==
  LET text == Trim(ToLowerCase(message))
  IN IF text = "" THEN NoInference
     ELSE IF wantsHistory(text) THEN inferHistory(text, now)
     ELSE IF wantsSearch(text) /\ ~TestAny(text, WeatherKeywords)
     THEN inferSearch(text, state)
     ELSE IF wantsGenerate(text) THEN inferGenerate(text, state)
     ELSE NoInference

(***************************************************************************)
(* JSON values carried by a tool call.  An arguments value is absent       *)
(* (undefined or the empty string, both falsy), a string (of valid JSON    *)
(* text for the object val, or of text JSON.parse rejects), or an object.  *)
(***************************************************************************)
EmptyArgs == <<>>
ArgAbsent == [kind |-> "absent", ok |-> FALSE, val |-> EmptyArgs]
ArgObject(a) == [kind |-> "object", ok |-> TRUE, val |-> a]
ArgBadString == [kind |-> "string", ok |-> FALSE, val |-> EmptyArgs]

JSONStringify(a) == [kind |-> "string", ok |-> TRUE, val |-> a]

\* the try { JSON.parse } catch { {} } / typeof === "object" ladder
ParseArgs(raw) ==
  IF raw.kind = "string" THEN (IF raw.ok THEN raw.val ELSE EmptyArgs)
  ELSE IF raw.kind = "object" THEN raw.val
  ELSE EmptyArgs

\* a || b on arguments values
OrArg(a, b) == IF a.kind # "absent" THEN a ELSE b

Has(args, f) == f \in DOMAIN args
\* args.f as a string; undefined reads as the (equally falsy) empty string
Arg(args, f) == IF Has(args, f) THEN args[f] ELSE ""

(***************************************************************************)
(* Planner responses (the /v1/responses payload): output items and the     *)
(* parts of a message item share one record shape.                         *)
(***************************************************************************)
NoFunction == [present |-> FALSE, name |-> "", arguments |-> ArgAbsent]

Node(type) ==
  [type |-> type, text |-> "", content |-> <<>>, id |-> "", call_id |-> "",
   name |-> "", function |-> NoFunction, tool_name |-> "",
   arguments |-> ArgAbsent, arguments_json |-> ArgAbsent]

FunctionCall(id, name, args) ==
  [Node("function_call") EXCEPT !.id = id, !.name = name,
                                !.arguments = JSONStringify(args)]

TextPart(t) == [Node("output_text") EXCEPT !.text = t]
Message(parts) == [Node("message") EXCEPT !.content = parts]

IsCallNode(n) == n.type = "tool_call" \/ n.type = "function_call"

RECURSIVE CallsOfParts(_, _)
CallsOfParts(parts, i) ==
  IF i > Len(parts) THEN <<>>
  ELSE (IF IsCallNode(parts[i]) THEN <<parts[i]>> ELSE <<>>)
       \o CallsOfParts(parts, i + 1)

RECURSIVE CallsOfItems(_, _)
CallsOfItems(output, i) ==
  IF i > Len(output) THEN <<>>
  ELSE (IF IsCallNode(output[i]) THEN <<output[i]>> ELSE <<>>)
       \o (IF output[i].type = "message"
           THEN CallsOfParts(output[i].content, 1) ELSE <<>>)
       \o CallsOfItems(output, i + 1)

extractToolCalls(response) == CallsOfItems(response.output, 1)

RECURSIVE TextOfParts(_, _)
TextOfParts(parts, i) ==
  IF i > Len(parts) THEN ""
  ELSE (IF parts[i].type \in {"text", "output_text"} THEN parts[i].text ELSE "")
       \o TextOfParts(parts, i + 1)

RECURSIVE TextOfItems(_, _)
TextOfItems(output, i) ==
  IF i > Len(output) THEN ""
  ELSE (IF output[i].type = "output_text" THEN output[i].text ELSE "")
       \o (IF output[i].type = "message"
           THEN TextOfParts(output[i].content, 1) ELSE "")
       \o TextOfItems(output, i + 1)

extractOutputText(response) ==
  IF Trim(response.output_text) # "" THEN response.output_text
  ELSE TextOfItems(response.output, 1)

(***************************************************************************)
(* Responses of the HTTP calls executeToolCall makes.  data.error is "" when *)
(* the payload carries no error field; images is read only when hasImages. *)
(***************************************************************************)
Null == [null |-> TRUE, v |-> 0]
Num(n) == [null |-> FALSE, v |-> n]

NoDaily ==
  [temperature_2m_max |-> Null, temperature_2m_min |-> Null,
   precipitation_sum |-> Null, windspeed_10m_max |-> Null]

Reply(ok, error) ==
  [ok |-> ok, error |-> error, hasImages |-> FALSE, images |-> <<>>,
   image |-> "", results |-> <<>>, hasDaily |-> FALSE, daily |-> NoDaily,
   rejected |-> FALSE]

\* the request rejected, or its body was not JSON: there is no response
Rejected == [Reply(FALSE, "") EXCEPT !.rejected = TRUE]

Urls(n) == [i \in 1..n |-> "https://img/" \o ToString(i)]

ImageReplies ==
  {[Reply(TRUE, "") EXCEPT !.hasImages = TRUE, !.images = Urls(n)] :
      n \in 0..MaxImages}
  \cup {Reply(TRUE, ""), Reply(FALSE, "upstream failed"), Reply(FALSE, ""),
        Reply(TRUE, "upstream failed")}

RefineReplies ==
  {[Reply(TRUE, "") EXCEPT !.image = "https://img/r"], Reply(TRUE, ""),
   Reply(FALSE, "Replicate failed"), Reply(FALSE, "")}

Place(name) ==
  [name |-> name, country |-> "FR", latitude |-> 48, longitude |-> 2]

GeocodeReplies ==
  {[Reply(TRUE, "") EXCEPT !.results = <<Place("Paris")>>],
   Reply(TRUE, ""), Reply(FALSE, "")}

ArchiveReplies ==
  {[Reply(TRUE, "") EXCEPT !.hasDaily = TRUE,
       !.daily = [temperature_2m_max |-> Num(12), temperature_2m_min |-> Num(3),
                  precipitation_sum |-> Num(0), windspeed_10m_max |-> Num(5)]],
   [Reply(TRUE, "") EXCEPT !.hasDaily = TRUE,
       !.daily = [NoDaily EXCEPT !.temperature_2m_max = Num(12)]],
   Reply(TRUE, ""), Reply(FALSE, "")}

RepliesOf(target) ==
  IF target \in {"unsplash", "pexels", "replicate"} THEN ImageReplies
  ELSE IF target = "refine" THEN RefineReplies
  ELSE IF target = "geocode" THEN GeocodeReplies
  ELSE ArchiveReplies

(***************************************************************************)
(* executeToolCall.  ExecStart is the code up to the first await: it       *)
(* throws, returns, or issues an HTTP request.  ExecResume is the code     *)
(* after the awaited response r of the request to target.                  *)
(***************************************************************************)
Throw(msg) == [kind |-> "throw", error |-> msg, result |-> <<>>, target |-> ""]
Return(result) == [kind |-> "return", error |-> "", result |-> result, target |-> ""]
Fetch(target) == [kind |-> "fetch", error |-> "", result |-> <<>>, target |-> target]

toolCallName(toolCall) ==
  Or(toolCall.name,
     Or(IF toolCall.function.present THEN toolCall.function.name ELSE "",
        toolCall.tool_name))

toolCallArgs(toolCall) ==
  ParseArgs(OrArg(toolCall.arguments,
                  OrArg(IF toolCall.function.present
                        THEN toolCall.function.arguments ELSE ArgAbsent,
                        OrArg(toolCall.arguments_json,
                              JSONStringify(EmptyArgs)))))

selectedSource_PexelsDefault(args) ==
  IF Arg(args, "source") \in {"pexels", "unsplash"}
  THEN Arg(args, "source") ELSE "pexels"

selectedSource(args) ==
  IF Arg(args, "source") \in {"pexels", "unsplash"}
  THEN Arg(args, "source") ELSE "unsplash"

\* the branches of executeToolCall up to their first await
search_library(args) ==
  IF Arg(args, "query") = "" THEN Throw("Missing query")
  ELSE Fetch(selectedSource(args))

generate_ai_NoPromptCheck(args) == Fetch("replicate")

generate_ai(args) ==
  IF Arg(args, "prompt") = "" THEN Throw("Missing prompt")
  ELSE Fetch("replicate")

refine_image(args) ==
  IF Arg(args, "prompt") = "" \/ Arg(args, "input_image") = ""
  THEN Throw("Missing prompt/input_image")
  ELSE Fetch("refine")

set_view_Acknowledged(args) ==
  IF Arg(args, "view") = "" THEN Throw("Missing view")
  ELSE Return([view |-> args.view, ok |-> TRUE])

set_view(args) ==
  IF Arg(args, "view") = "" THEN Throw("Missing view")
  ELSE Return([view |-> args.view])

refresh_weather == Return([ok |-> TRUE])

get_weather_history(args) ==
  IF Arg(args, "city") = "" \/ Arg(args, "date") = ""
  THEN Throw("Missing city/date")
  ELSE Fetch("geocode")

ExecStart_UnknownIgnored(toolCall) ==
  LET name == toolCallName(toolCall)
      args == toolCallArgs(toolCall)
  IN IF name = "search_library" THEN search_library(args)
     ELSE IF name = "generate_ai" THEN generate_ai(args)
     ELSE IF name = "refine_image" THEN refine_image(args)
     ELSE IF name = "set_view" THEN set_view(args)
     ELSE IF name = "get_weather_history" THEN get_weather_history(args)
     ELSE refresh_weather

ExecStart(toolCall) ==
  LET name == toolCallName(toolCall)
      args == toolCallArgs(toolCall)
  IN IF name = "search_library" THEN search_library(args)
     ELSE IF name = "generate_ai" THEN generate_ai(args)
     ELSE IF name = "refine_image" THEN refine_image(args)
     ELSE IF name = "set_view" THEN set_view(args)
     ELSE IF name = "refresh_weather" THEN refresh_weather
     ELSE IF name = "get_weather_history" THEN get_weather_history(args)
     ELSE Throw("Unknown tool")

Slice10(s) == SubSeq(s, 1, IF Len(s) < 10 THEN Len(s) ELSE 10)

ExecResume_NoDailyCheck(toolCall, target, place, r) ==
  LET args == toolCallArgs(toolCall)
  IN IF target \in {"unsplash", "pexels"}
     THEN (IF ~r.ok \/ r.error # ""
           THEN Throw(Or(r.error, IF target = "unsplash" THEN "Unsplash failed"
                                  ELSE "Pexels failed"))
           ELSE Return([images |-> IF r.hasImages THEN r.images ELSE <<>>,
                        source |-> target]))
     ELSE IF target = "replicate"
     THEN (IF ~r.ok \/ r.error # "" THEN Throw(Or(r.error, "Flux failed"))
           ELSE Return([images |-> IF r.hasImages THEN r.images ELSE <<>>]))
     ELSE IF target = "refine"
     THEN (IF ~r.ok \/ r.error # "" THEN Throw(Or(r.error, "Refine failed"))
           ELSE Return([image |-> r.image]))
     ELSE IF target = "geocode"
     THEN (IF ~r.ok \/ Len(r.results) = 0 THEN Throw("City not found")
           ELSE Fetch("archive"))
     ELSE (IF ~r.ok THEN Throw("Weather history failed")
           ELSE Return([city |-> place.name,
                        country |-> place.country,
                        date |-> Slice10(Arg(args, "date")),
                        temperature_max |-> r.daily.temperature_2m_max,
                        temperature_min |-> r.daily.temperature_2m_min,
                        precipitation_sum |-> r.daily.precipitation_sum,
                        windspeed_max |-> r.daily.windspeed_10m_max]))

\* place is the geocoding match kept from the first response of
\* get_weather_history (unused for the other targets)
ExecResume(toolCall, target, place, r) ==
  LET args == toolCallArgs(toolCall)
  IN IF target \in {"unsplash", "pexels"}
     THEN (IF ~r.ok \/ r.error # ""
           THEN Throw(Or(r.error, IF target = "unsplash" THEN "Unsplash failed"
                                  ELSE "Pexels failed"))
           ELSE Return([images |-> IF r.hasImages THEN r.images ELSE <<>>,
                        source |-> target]))
     ELSE IF target = "replicate"
     THEN (IF ~r.ok \/ r.error # "" THEN Throw(Or(r.error, "Flux failed"))
           ELSE Return([images |-> IF r.hasImages THEN r.images ELSE <<>>]))
     ELSE IF target = "refine"
     THEN (IF ~r.ok \/ r.error # "" THEN Throw(Or(r.error, "Refine failed"))
           ELSE Return([image |-> r.image]))
     ELSE IF target = "geocode"
     THEN (IF ~r.ok \/ Len(r.results) = 0 THEN Throw("City not found")
           ELSE Fetch("archive"))
     ELSE (IF ~r.ok \/ ~r.hasDaily THEN Throw("Weather history failed")
           ELSE Return([city |-> place.name,
                        country |-> place.country,
                        date |-> Slice10(Arg(args, "date")),
                        temperature_max |-> r.daily.temperature_2m_max,
                        temperature_min |-> r.daily.temperature_2m_min,
                        precipitation_sum |-> r.daily.precipitation_sum,
                        windspeed_max |-> r.daily.windspeed_10m_max]))

(***************************************************************************)
(* Deterministic replies of POST /api/agent.                               *)
(***************************************************************************)
U00B0 == "<deg>"
U2014 == "<emdash>"

WeatherLine(r) ==
  LET max == IF ~r.temperature_max.null
             THEN ToString(r.temperature_max.v) \o U00B0 \o "C" ELSE U2014
      min == IF ~r.temperature_min.null
             THEN ToString(r.temperature_min.v) \o U00B0 \o "C" ELSE U2014
      rain == IF ~r.precipitation_sum.null
              THEN ToString(r.precipitation_sum.v) \o "mm" ELSE U2014
      wind == IF ~r.windspeed_max.null
              THEN ToString(r.windspeed_max.v) \o " m/s" ELSE U2014
  IN r.city \o " " \o r.date \o ": high " \o max \o ", low " \o min
     \o ", rain " \o rain \o ", wind " \o wind \o "."

\* Array.isArray(result?.images) ? result.images.length : 0
ImageCount(result) == IF Has(result, "images") THEN Len(result.images) ELSE 0

FoundReply(count) ==
  IF count # 0 THEN "Found " \o ToString(count) \o " images."
  ELSE "Search completed."

GeneratedReply(count) ==
  IF count # 0 THEN "Generated " \o ToString(count) \o " images."
  ELSE "Generation completed."

\* fallbackReply of the heuristic branch
heuristicFallbackReply(results) ==
  IF Len(results) = 0 THEN ""
  ELSE LET firstTool == results[1]
           r == firstTool.result
       IN IF /\ firstTool.name = "get_weather_history"
             /\ Arg(r, "city") # ""
             /\ Arg(r, "date") # ""
          THEN WeatherLine(r)
          ELSE IF firstTool.name = "search_library"
          THEN FoundReply(ImageCount(r))
          ELSE IF firstTool.name = "generate_ai"
          THEN GeneratedReply(ImageCount(r))
          ELSE "Done."

\* fallbackReply of the planner branch
plannerFallbackReply(results) ==
  IF Len(results) = 0 THEN ""
  ELSE LET firstTool == results[1]
           r == firstTool.result
       IN IF /\ firstTool.name = "get_weather_history"
             /\ Arg(r, "city") # ""
             /\ Arg(r, "date") # ""
          THEN WeatherLine(r)
          ELSE IF firstTool.name = "refresh_weather"
          THEN "I have updated the weather data. Do you want today or the past 7 days?"
          ELSE IF firstTool.name = "set_view"
          THEN "View updated."
          ELSE IF firstTool.name = "search_library"
          THEN FoundReply(ImageCount(r))
          ELSE IF firstTool.name = "generate_ai"
          THEN GeneratedReply(ImageCount(r))
          ELSE IF firstTool.name = "refine_image"
          THEN "Refine completed."
          ELSE "Done."

NextActionPrompt_Done == "Done."

NextActionPrompt == "Got it. What would you like to do next?"

(***************************************************************************)
(* HTTP responses of the handler.                                          *)
(***************************************************************************)
NoRes == [status |-> 0, error |-> "", hasReply |-> FALSE, tools |-> <<>>, reply |-> ""]

JsonError(status, msg) ==
  [status |-> status, error |-> msg, hasReply |-> FALSE, tools |-> <<>>, reply |-> ""]

JsonReply(toolResultList, reply) ==
  [status |-> 200, error |-> "", hasReply |-> TRUE, tools |-> toolResultList,
   reply |-> reply]

\* the catch block of the handler
AgentCatch(msg) == JsonError(500, Or(msg, "Agent failed"))

(***************************************************************************)
(* The tool registry sent to the planner (const tools of the handler).     *)
(***************************************************************************)
Ratios == {"1:1", "4:3", "16:9", "3:4", "9:16"}

ToolSpec(name, properties, required, enums, ranges) ==
  [name |-> name, properties |-> properties, required |-> required,
   enums |-> enums, ranges |-> ranges]

tools_NoRefine ==
  <<ToolSpec("search_library", {"query", "source", "ratio"}, {"query"},
             [source |-> {"unsplash", "pexels"}, ratio |-> Ratios], <<>>),
    ToolSpec("set_view", {"view"}, {"view"},
             [view |-> {"weather", "gallery"}], <<>>),
    ToolSpec("refresh_weather", {}, {}, <<>>, <<>>),
    ToolSpec("get_weather_history", {"city", "date"}, {"city", "date"}, <<>>,
             <<>>),
    ToolSpec("generate_ai", {"prompt", "count", "aspect_ratio"}, {"prompt"},
             [aspect_ratio |-> Ratios], [count |-> 1..5])>>

tools ==
  <<ToolSpec("search_library", {"query", "source", "ratio"}, {"query"},
             [source |-> {"unsplash", "pexels"}, ratio |-> Ratios], <<>>),
    ToolSpec("set_view", {"view"}, {"view"},
             [view |-> {"weather", "gallery"}], <<>>),
    ToolSpec("refresh_weather", {}, {}, <<>>, <<>>),
    ToolSpec("get_weather_history", {"city", "date"}, {"city", "date"}, <<>>,
             <<>>),
    ToolSpec("generate_ai", {"prompt", "count", "aspect_ratio"}, {"prompt"},
             [aspect_ratio |-> Ratios], [count |-> 1..5]),
    ToolSpec("refine_image", {"prompt", "input_image"},
             {"prompt", "input_image"}, <<>>, <<>>)>>

\* name is a registered tool and args satisfies its parameter schema
SchemaValid(name, args) ==
  \E i \in 1..Len(tools) :
    /\ tools[i].name = name
    /\ tools[i].required \subseteq DOMAIN args
    /\ \A f \in DOMAIN args \cap DOMAIN tools[i].enums :
         args[f] \in tools[i].enums[f]
    /\ \A f \in DOMAIN args \cap DOMAIN tools[i].ranges :
         args[f] \in tools[i].ranges[f]

(***************************************************************************)
(* Inputs of the model.                                                    *)
(***************************************************************************)
Messages ==
  {"", "hello", "show me mountains", "Show me images of cats", "search",
   "show me", "find photos of", "images", "draw a cat", "make",
   "search the weather", "find a picture and draw it",
   "weather in Paris yesterday", "weather in Rome yesterday",
   "Paris weather yesterday",
   "weather yesterday", "yesterday weather", "weather in paris",
   "last 7 days in rome", "rome weather last week",
   "rome weather 2024-01-05 yesterday", "find rome weather yesterday",
   "draw a picture of last week in rome",
   U641C \o U7D22,
   U56FE \o U7247,
   U641C \o U732B,
   U753B \o U732B,
   U751F \o U6210,
   U5317 \o U4EAC \o U5929 \o U6C14 \o U6628 \o U5929,
   U5317 \o U4EAC \o U5929 \o U6C14 \o U524D \o U5929,
   U8FC7 \o U53BB \o U5317 \o U4EAC \o U5929 \o U6C14,
   U6628 \o U5929}

NoState == [preferred_ratio |-> "", ratio |-> "", ai_ratio |-> ""]

States ==
  {NoState,
   [NoState EXCEPT !.preferred_ratio = "16:9"],
   [NoState EXCEPT !.ratio = "4:3"],
   [NoState EXCEPT !.ai_ratio = "3:4"],
   [preferred_ratio |-> "9:16", ratio |-> "4:3", ai_ratio |-> "3:4"]}

\* messages sent with every state of States (the others go with NoState)
RatioMessages == {"show me mountains", "draw a cat"}

AgentRequestBody(m, st) ==
  [message |-> m, state |-> st, route |-> "/api/agent", session |-> "",
   command |-> <<>>, id |-> ""]

Requests ==
  {AgentRequestBody(m, NoState) : m \in Messages}
  \cup {AgentRequestBody(m, st) : m \in RatioMessages, st \in States}

Dates ==
  {[y |-> 2024, m |-> 3, d |-> 10], [y |-> 2024, m |-> 3, d |-> 1],
   [y |-> 2023, m |-> 3, d |-> 1], [y |-> 2100, m |-> 3, d |-> 2],
   [y |-> 2000, m |-> 3, d |-> 1], [y |-> 2024, m |-> 1, d |-> 1],
   [y |-> 2024, m |-> 1, d |-> 5], [y |-> 2024, m |-> 5, d |-> 1],
   [y |-> 2024, m |-> 12, d |-> 31]}

NoDate == [y |-> 0, m |-> 0, d |-> 0]

CallPool ==
  {FunctionCall("call_1", "search_library", [query |-> "cats"]),
   FunctionCall("call_2", "search_library",
                [query |-> "cats", source |-> "pexels", ratio |-> "16:9"]),
   FunctionCall("call_3", "search_library",
                [query |-> "cats", source |-> "flickr"]),
   FunctionCall("call_4", "search_library", EmptyArgs),
   FunctionCall("call_5", "generate_ai", [prompt |-> "a cat"]),
   FunctionCall("call_6", "refine_image",
                [prompt |-> "warmer", input_image |-> "https://img/in"]),
   FunctionCall("call_7", "refine_image", [prompt |-> "warmer"]),
   FunctionCall("call_8", "set_view", [view |-> "gallery"]),
   FunctionCall("", "set_view", [view |-> "weather"]),
   FunctionCall("call_10", "refresh_weather", EmptyArgs),
   FunctionCall("call_11", "get_weather_history",
                [city |-> "Paris", date |-> "2024-03-09"]),
   FunctionCall("call_12", "delete_all", EmptyArgs),
   [Node("tool_call") EXCEPT
      !.call_id = "call_13",
      !.function = [present |-> TRUE, name |-> "set_view",
                    arguments |-> JSONStringify([view |-> "gallery"])]],
   [Node("tool_call") EXCEPT
      !.id = "call_14", !.tool_name = "set_view",
      !.arguments_json = JSONStringify([view |-> "gallery"])],
   [Node("function_call") EXCEPT
      !.id = "call_15", !.name = "set_view", !.arguments = ArgBadString],
   [Node("function_call") EXCEPT
      !.id = "call_16", !.name = "set_view",
      !.arguments = ArgObject([view |-> "weather"])],
   [Node("function_call") EXCEPT !.id = "call_22"],
   FunctionCall("call_17", "generate_ai", [count |-> 2]),
   FunctionCall("call_18", "get_weather_history", [city |-> "Paris"]),
   FunctionCall("call_19", "set_view", [view |-> "settings"]),
   FunctionCall("call_20", "generate_ai",
                [prompt |-> "a cat", count |-> 9, aspect_ratio |-> "2:1"]),
   FunctionCall("call_21", "search_library",
                [query |-> "cats", ratio |-> "2:1"])}

\* the invocations that appear in responses with more than one invocation
MultiPool ==
  {FunctionCall("call_1", "search_library", [query |-> "cats"]),
   FunctionCall("call_8", "set_view", [view |-> "gallery"]),
   FunctionCall("call_10", "refresh_weather", EmptyArgs),
   FunctionCall("call_12", "delete_all", EmptyArgs)}

CallSeqs ==
  {<<>>} \cup {<<c>> : c \in CallPool}
  \cup UNION {[1..n -> MultiPool] : n \in 2..MaxCalls}

PlannerTexts == {"", "Sure."}

Response(text, output) == [id |-> "resp_1", output_text |-> text, output |-> output]

PlannerResponses ==
  {Response(t, cs) : t \in PlannerTexts, cs \in CallSeqs}
  \cup {Response("", <<Message(<<TextPart("Hello "), TextPart("there.")>>)>>),
        Response("  ", <<TextPart("Hi.")>>),
        Response("", <<Message(<<TextPart("On it."),
                                 FunctionCall("call_8", "set_view",
                                              [view |-> "gallery"])>>)>>)}

SummaryResponses ==
  {Response("", <<>>), Response("Here is what I found.", <<>>),
   Response("", <<Message(<<TextPart("All done.")>>)>>)}

(***************************************************************************)
(* State of the server.  One request is followed at a time (pc is "idle"   *)
(* between requests): the handlers share no state but the sessions Map,    *)
(* which only the synchronous session handlers read or write.              *)
(***************************************************************************)
VARIABLES
  env,          \* process.env: which credentials are set
  pc,           \* "idle", "plan1", "loop", "fetch", "plan2", "done" (agent);
                \* "submit", "wait", "poll" (prediction handlers)
  req,          \* req.body: [message, state]
  first,        \* the first planner response
  path,         \* "none", "planner" or "heuristic"
  calls,        \* the tool calls the loop iterates over
  k,            \* index in calls of the call being executed
  toolResults,  \* toolResults
  toolOutputs,  \* toolOutputs (the tool_call_id of each entry)
  fetching,     \* the HTTP request executeToolCall awaits
  outbound,     \* every outbound HTTP request of the turn, in order
  execLog,      \* every invocation of executeToolCall of the turn, in order
  inferred,     \* what inferToolFromText returned ("unused": not called)
  clockRead,    \* the date new Date() gave to formatDateOffset
  second,       \* the second planner call: [status, data]
  res,          \* the HTTP response of the request
  sessions,     \* the sessions Map: session id -> [code, queue, commands, records]
  job,          \* the prediction /api/replicate or /api/refine follows
  proxy         \* the locals of a proxy handler: [route, index, results, errors],
                \* and the statuses of the responses /api/pexels received

vars == <<env, pc, req, first, path, calls, k, toolResults, toolOutputs,
          fetching, outbound, execLog, inferred, clockRead, second, res,
          sessions, job, proxy>>

NoReq ==
  [message |-> "", state |-> NoState, route |-> "", session |-> "",
   command |-> <<>>, id |-> ""]
NoFirst == Response("", <<>>)
NoFetch == [target |-> "", place |-> Place("")]
NotInferred == [kind |-> "unused", reply |-> "", tools |-> <<>>]
NoSecond == [status |-> "none", data |-> NoFirst]
\* no prediction yet
NoOutput == [kind |-> "none", url |-> "", items |-> <<>>]

Prediction(status, error, hasUrls, output) ==
  [status |-> status, error |-> error, hasUrls |-> hasUrls, output |-> output]

NoPrediction == Prediction("", "", FALSE, NoOutput)

NoJob ==
  [route |-> "", prediction |-> NoPrediction, elapsed |-> 0, responses |-> 0,
   submitOk |-> FALSE]

\* no proxy handler is running
NoProxy ==
  [route |-> "", index |-> 0, results |-> <<>>, errors |-> <<>>,
   statuses |-> <<>>]

\* process.env, each variable set or not: plannerKey is
\* OPENAI_API_KEY || OPENAI_KEY, openaiKey is OPENAI_KEY alone (so openaiKey
\* implies plannerKey), replicateToken is
\* REPLICATE_API_TOKEN || REPLICATE_API_KEY, weatherKey is
\* WEATHER_API_KEY, unsplashKey is UNSPLASH_KEY, pexelsKey is PEXELS_KEY
Env(plannerKey, replicateToken) ==
  [plannerKey |-> plannerKey, replicateToken |-> replicateToken,
   openaiKey |-> FALSE, weatherKey |-> TRUE, unsplashKey |-> TRUE,
   pexelsKey |-> TRUE]

\* the server after start, whatever the environment
Started ==
  /\ pc = "idle"
  /\ req = NoReq
  /\ first = NoFirst
  /\ path = "none"
  /\ calls = <<>>
  /\ k = 0
  /\ toolResults = <<>>
  /\ toolOutputs = <<>>
  /\ fetching = NoFetch
  /\ outbound = <<>>
  /\ execLog = <<>>
  /\ inferred = NotInferred
  /\ clockRead = NoDate
  /\ second = NoSecond
  /\ res = NoRes
  /\ sessions = <<>>
  /\ job = NoJob
  /\ proxy = NoProxy

Init ==
  /\ env \in {Env(TRUE, TRUE), Env(FALSE, TRUE)}
  /\ Started

(***************************************************************************)
(* POST /api/agent                                                         *)
(***************************************************************************)
PlannerCall == [to |-> "planner", call |-> 0]
ToolFetch(target, i) == [to |-> target, call |-> i]

MessageMissing_Never(message) == FALSE

\* !message (a missing message and the empty string are both falsy)
MessageMissing(message) == message = ""

\* The handler from the request to the first await: the 400 answer, the
\* missing-key throw of callOpenAIResponses, or the first planner request.
AgentRequest ==
  /\ pc = "idle"
  /\ \E r \in Requests :
       /\ req' = r
       /\ IF MessageMissing(r.message)
          THEN /\ res' = JsonError(400, "Missing message")
               /\ pc' = "done"
               /\ UNCHANGED outbound
          ELSE IF ~env.plannerKey
          THEN /\ res' = AgentCatch("Missing OPENAI_API_KEY")
               /\ pc' = "done"
               /\ UNCHANGED outbound
          ELSE /\ outbound' = Append(outbound, PlannerCall)
               /\ pc' = "plan1"
               /\ UNCHANGED res
  /\ UNCHANGED <<proxy, sessions, job, env, first, path, calls, k, toolResults, toolOutputs,
                 fetching, execLog, inferred, clockRead, second>>

\* the first planner request rejects, or answers with a non-success status
PlannerFirstFails ==
  /\ pc = "plan1"
  /\ res' = AgentCatch("OpenAI responses failed")
  /\ pc' = "done"
  /\ UNCHANGED <<proxy, sessions, job, env, req, first, path, calls, k, toolResults, toolOutputs,
                 fetching, outbound, execLog, inferred, clockRead, second>>

\* formatDateOffset runs (and reads the clock) in the history rule only,
\* when no ISO date short-circuits the || chain
ReadsClock(message) ==
  LET text == Trim(ToLowerCase(message))
  IN /\ text # ""
     /\ wantsHistory(text)
     /\ parseISODate(text) = ""
     /\ \/ Includes(text, "yesterday")
        \/ Includes(text, U6628 \o U5929)
        \/ Includes(text, U524D \o U5929)
        \/ Includes(text, "last week")
        \/ Includes(text, U4E0A \o U5468)

\* the call object the heuristic branch hands to executeToolCall
HeuristicCall(tool) ==
  [Node("") EXCEPT !.name = tool.name, !.arguments = JSONStringify(tool.args)]

RECURSIVE HeuristicCalls(_, _)
HeuristicCalls(inferredTools, i) ==
  IF i > Len(inferredTools) THEN <<>>
  ELSE <<HeuristicCall(inferredTools[i])>> \o HeuristicCalls(inferredTools, i + 1)

\* The first planner response arrives: extraction, the heuristic branch
\* (clarifying reply, inferred tools, plain reply) or the start of the
\* planner tool loop.
PlannerFirstReturns ==
  /\ pc = "plan1"
  /\ \E data \in PlannerResponses :
       LET toolCalls == extractToolCalls(data)
           replyText == extractOutputText(data)
       IN /\ first' = data
          /\ IF Len(toolCalls) = 0
             THEN \E now \in (IF ReadsClock(req.message) THEN Dates ELSE {NoDate}) :
                    LET inf == inferToolFromText(req.message, req.state, now)
                    IN /\ inferred' = inf
                       /\ req' = [req EXCEPT
                                    !.state = StateAfterInfer(req.message, @)]
                       /\ clockRead' = now
                       /\ IF inf.kind = "reply"
                          THEN /\ res' = JsonReply(<<>>, inf.reply)
                               /\ pc' = "done"
                               /\ UNCHANGED <<path, calls, k>>
                          ELSE IF inf.kind = "tools" /\ Len(inf.tools) > 0
                          THEN /\ path' = "heuristic"
                               /\ calls' = HeuristicCalls(inf.tools, 1)
                               /\ k' = 1
                               /\ pc' = "loop"
                               /\ UNCHANGED res
                          ELSE /\ res' = JsonReply(<<>>, Or(replyText, NextActionPrompt))
                               /\ pc' = "done"
                               /\ UNCHANGED <<path, calls, k>>
             ELSE /\ path' = "planner"
                  /\ calls' = toolCalls
                  /\ k' = 1
                  /\ pc' = "loop"
                  /\ UNCHANGED <<res, req, inferred, clockRead>>
  /\ UNCHANGED <<proxy, sessions, job, env, toolResults, toolOutputs, fetching, outbound,
                 execLog, second>>

\* the name and args the handler records for a call in toolResults
RecordedName(call) ==
  IF path = "heuristic" THEN call.name
  ELSE Or(call.name, IF call.function.present THEN call.function.name ELSE "")

RecordedArgs(call) ==
  IF path = "heuristic" THEN ParseArgs(call.arguments)
  ELSE ParseArgs(OrArg(call.arguments,
                       OrArg(call.arguments_json, JSONStringify(EmptyArgs))))

CallId(call) == Or(call.id, call.call_id)

LogStart(call) ==
  [name |-> toolCallName(call), args |-> toolCallArgs(call),
   outcome |-> "running", result |-> <<>>, error |-> "", replies |-> <<>>]

\* the execution under way received the response r
LogReply(log, r) == [log EXCEPT ![Len(log)].replies = Append(@, r)]

LogEnd(log, outcome, result, error) ==
  [log EXCEPT ![Len(log)].outcome = outcome, ![Len(log)].result = result,
              ![Len(log)].error = error]

ToolThrows_Continues(log, msg) ==
  /\ execLog' = LogEnd(log, "threw", <<>>, msg)
  /\ fetching' = NoFetch
  /\ IF k < Len(calls)
     THEN k' = k + 1 /\ pc' = "loop"
     ELSE pc' = "plan2" /\ UNCHANGED k
  /\ UNCHANGED <<toolResults, toolOutputs, res>>

\* executeToolCall threw: the catch block answers, the turn ends
ToolThrows(log, msg) ==
  /\ res' = AgentCatch(msg)
  /\ pc' = "done"
  /\ execLog' = LogEnd(log, "threw", <<>>, msg)
  /\ fetching' = NoFetch
  /\ UNCHANGED <<k, toolResults, toolOutputs>>

\* executeToolCall returned result: push to toolResults (and toolOutputs),
\* then the next iteration, or after the last one the heuristic answer or
\* the second planner request
ToolReturns(log, result, out) ==
  LET call == calls[k]
      entry == [name |-> RecordedName(call), args |-> RecordedArgs(call),
                result |-> result]
      results == Append(toolResults, entry)
      outputs == IF path = "planner" /\ CallId(call) # ""
                 THEN Append(toolOutputs, CallId(call)) ELSE toolOutputs
  IN /\ toolResults' = results
     /\ toolOutputs' = outputs
     /\ execLog' = LogEnd(log, "returned", result, "")
     /\ fetching' = NoFetch
     /\ IF k < Len(calls)
        THEN /\ k' = k + 1
             /\ pc' = "loop"
             /\ outbound' = out
             /\ UNCHANGED res
        ELSE IF path = "heuristic"
        THEN /\ res' = JsonReply(results, Or(heuristicFallbackReply(results), "Done."))
             /\ pc' = "done"
             /\ outbound' = out
             /\ UNCHANGED k
        ELSE /\ outbound' = Append(out, PlannerCall)
             /\ pc' = "plan2"
             /\ UNCHANGED <<k, res>>

\* one iteration of the tool loop up to the first await of executeToolCall
ExecuteToolCall ==
  /\ pc = "loop"
  /\ k <= Len(calls)
  /\ LET st == ExecStart(calls[k])
         log == Append(execLog, LogStart(calls[k]))
     IN IF st.kind = "throw"
        THEN ToolThrows(log, st.error) /\ UNCHANGED outbound
        ELSE IF st.kind = "return"
        THEN ToolReturns(log, st.result, outbound)
        ELSE /\ outbound' = Append(outbound, ToolFetch(st.target, k))
             /\ fetching' = [target |-> st.target, place |-> Place("")]
             /\ pc' = "fetch"
             /\ execLog' = log
             /\ UNCHANGED <<k, toolResults, toolOutputs, res>>
  /\ UNCHANGED <<proxy, sessions, job, env, req, first, path, calls, inferred, clockRead, second>>

\* the response of the request executeToolCall awaits arrives
FetchReturns ==
  /\ pc = "fetch"
  /\ \E r \in RepliesOf(fetching.target) :
       LET st == ExecResume(calls[k], fetching.target, fetching.place, r)
           log == LogReply(execLog, r)
       IN IF st.kind = "throw"
          THEN ToolThrows(log, st.error) /\ UNCHANGED outbound
          ELSE IF st.kind = "return"
          THEN ToolReturns(log, st.result, outbound)
          ELSE /\ outbound' = Append(outbound, ToolFetch(st.target, k))
               /\ fetching' = [target |-> st.target, place |-> r.results[1]]
               /\ execLog' = log
               /\ UNCHANGED <<pc, k, toolResults, toolOutputs, res>>
  /\ UNCHANGED <<proxy, sessions, job, env, req, first, path, calls, inferred, clockRead, second>>

\* the request executeToolCall awaits rejects (network failure, body not JSON)
FetchRejects ==
  /\ pc = "fetch"
  /\ ToolThrows(LogReply(execLog, Rejected), "request failed")
  /\ UNCHANGED <<proxy, sessions, job, env, req, first, path, calls, outbound, inferred, clockRead,
                 second>>

\* the second planner response arrives: reply assembly
PlannerSecondReturns ==
  /\ pc = "plan2"
  /\ \E data \in SummaryResponses :
       LET secondReply == extractOutputText(data)
           replyText == extractOutputText(first)
       IN /\ second' = [status |-> "ok", data |-> data]
          /\ res' = JsonReply(toolResults,
                              Or(secondReply,
                                 Or(replyText,
                                    Or(plannerFallbackReply(toolResults),
                                       NextActionPrompt))))
  /\ pc' = "done"
  /\ UNCHANGED <<proxy, sessions, job, env, req, first, path, calls, k, toolResults, toolOutputs,
                 fetching, outbound, execLog, inferred, clockRead>>

\* the second planner request rejects, or answers with a non-success status
PlannerSecondFails ==
  /\ pc = "plan2"
  /\ second' = [status |-> "failed", data |-> NoFirst]
  /\ res' = AgentCatch("OpenAI responses failed")
  /\ pc' = "done"
  /\ UNCHANGED <<proxy, sessions, job, env, req, first, path, calls, k, toolResults, toolOutputs,
                 fetching, outbound, execLog, inferred, clockRead>>

\* the turn is over; nothing of it is kept for the next request
Finish ==
  /\ pc = "done"
  /\ pc' = "idle"
  /\ req' = NoReq
  /\ first' = NoFirst
  /\ path' = "none"
  /\ calls' = <<>>
  /\ k' = 0
  /\ toolResults' = <<>>
  /\ toolOutputs' = <<>>
  /\ fetching' = NoFetch
  /\ outbound' = <<>>
  /\ execLog' = <<>>
  /\ inferred' = NotInferred
  /\ clockRead' = NoDate
  /\ second' = NoSecond
  /\ res' = NoRes
  /\ job' = NoJob
  /\ proxy' = NoProxy
  /\ UNCHANGED <<sessions, env>>

(***************************************************************************)
(* Sessions and remote commands.  The record object of a command is shared *)
(* by the queue and the commands Map of its session: it is held once, in   *)
(* records, and referred to by its position there.  The timestamps ts and  *)
(* createdAt are never read and are left out.  delivered is the history of *)
(* the positions /api/check handed out, in the order of the answers.       *)
(***************************************************************************)
MaxSessions == 1
MaxCmds == 1
\* commands per session when the session handlers run on their own
MaxQueued == 3

\* createSessionId and the id of /api/cmd: the n-th value drawn
createSessionId(n) == "S" \o ToString(n)
createShortCode == "VISTA-7K2Q"
CommandId_Same(n) == "c1"
CommandId(n) == "c" \o ToString(n)

NoCommand == <<>>
Commands ==
  {[action |-> "next"],
   [action |-> "next", id |-> "c1", status |-> "executed"]}

SessionInputs == {"", "S1", "S9"}
IdInputs == {"", "c1", "c9"}

NewSession == [code |-> createShortCode, queue |-> <<>>, commands |-> <<>>,
               records |-> <<>>, delivered |-> <<>>]

\* Map.set
MapSet(map, key, value) ==
  [x \in DOMAIN map \cup {key} |-> IF x = key THEN value ELSE map[x]]

\* the lookups of a session: what was found, and the store after the lookup
getSession(store, sessionId) ==
  [found |-> sessionId \in DOMAIN store, store |-> store]

ensureSession_Creates(store, sessionId) ==
  [found |-> sessionId \in DOMAIN store,
   store |-> IF sessionId = "" \/ sessionId \in DOMAIN store THEN store
             ELSE MapSet(store, sessionId, NewSession)]

ensureSession(store, sessionId) ==
  [found |-> sessionId # "" /\ sessionId \in DOMAIN store, store |-> store]

\* queue.shift(): the element taken and the queue left
QueueShift_Last(queue) ==
  [cmd |-> queue[Len(queue)], rest |-> SubSeq(queue, 1, Len(queue) - 1)]

QueueShift(queue) == [cmd |-> Head(queue), rest |-> Tail(queue)]

CommandRecord_PayloadLast(id, command) ==
  [f \in DOMAIN command \cup {"id", "status"} |->
     IF f \in DOMAIN command THEN command[f]
     ELSE IF f = "status" THEN "sent"
     ELSE id]

\* { id, ...command, status: "sent", ts }
CommandRecord(id, command) ==
  [f \in DOMAIN command \cup {"id", "status"} |->
     IF f = "status" THEN "sent"
     ELSE IF f \in DOMAIN command THEN command[f]
     ELSE id]

SessionRequest(route, session, command, id) ==
  [message |-> "", state |-> NoState, route |-> route, session |-> session,
   command |-> command, id |-> id]

Json(body) ==
  [status |-> 200, error |-> "", hasReply |-> FALSE, tools |-> <<>>,
   reply |-> "", body |-> body]

\* a synchronous handler ran: only req, res and sessions may have changed
Answered ==
  /\ pc' = "done"
  /\ UNCHANGED <<env, first, path, calls, k, toolResults, toolOutputs,
                 fetching, outbound, execLog, inferred, clockRead, second,
                 job, proxy>>

\* POST /api/session
PostSession ==
  /\ pc = "idle"
  /\ Cardinality(DOMAIN sessions) < MaxSessions
  /\ LET sessionId == createSessionId(Cardinality(DOMAIN sessions) + 1)
     IN /\ sessions' = MapSet(sessions, sessionId, NewSession)
        /\ req' = SessionRequest("/api/session", "", NoCommand, "")
        /\ res' = Json([session |-> sessionId, code |-> createShortCode])
  /\ Answered

\* GET /api/session/:id
GetSession ==
  /\ pc = "idle"
  /\ \E sessionId \in SessionInputs \ {""} :
       /\ req' = SessionRequest("/api/session/:id", sessionId, NoCommand, "")
       /\ res' = IF sessionId \notin DOMAIN sessions
                 THEN JsonError(404, "Session not found")
                 ELSE Json([ok |-> TRUE])
  /\ UNCHANGED sessions
  /\ Answered

\* POST /api/cmd, for a session of at most max commands
PostCmdUpTo(max) ==
  /\ pc = "idle"
  /\ \E session \in SessionInputs, command \in Commands \cup {NoCommand} :
       /\ req' = SessionRequest("/api/cmd", session, command, "")
       /\ IF session = "" \/ command = NoCommand
          THEN /\ res' = JsonError(400, "Missing session or command")
               /\ UNCHANGED sessions
          ELSE IF ~ensureSession(sessions, session).found
          THEN /\ res' = JsonError(404, "Session not found")
               /\ sessions' = ensureSession(sessions, session).store
          ELSE LET sess == sessions[session]
                   n == Len(sess.records) + 1
                   id == CommandId(n)
               IN /\ n <= max
                  /\ sessions' =
                       [sessions EXCEPT ![session] =
                          [sess EXCEPT
                             !.records = Append(@, CommandRecord(id, command)),
                             !.queue = Append(@, n),
                             !.commands = MapSet(@, id, n)]]
                  /\ res' = Json([ok |-> TRUE, id |-> id])
  /\ Answered

PostCmd == PostCmdUpTo(MaxCmds)

\* GET /api/check
GetCheck ==
  /\ pc = "idle"
  /\ \E session \in SessionInputs :
       /\ req' = SessionRequest("/api/check", session, NoCommand, "")
       /\ IF session = ""
          THEN /\ res' = JsonError(400, "Missing session")
               /\ UNCHANGED sessions
          ELSE IF ~getSession(sessions, session).found
          THEN /\ res' = JsonError(404, "Session not found")
               /\ sessions' = getSession(sessions, session).store
          ELSE LET sess == sessions[session]
               IN IF Len(sess.queue) = 0
                  THEN /\ res' = Json([command |-> Null])
                       /\ UNCHANGED sessions
                  ELSE LET n == QueueShift(sess.queue).cmd
                           cmd == [sess.records[n] EXCEPT !.status = "executed"]
                       IN /\ sessions' =
                               [sessions EXCEPT ![session] =
                                  [sess EXCEPT
                                     !.queue = QueueShift(@).rest,
                                     !.records = [@ EXCEPT ![n] = cmd],
                                     !.commands = MapSet(@, cmd.id, n),
                                     !.delivered = Append(@, n)]]
                          /\ res' = Json([command |-> cmd])
  /\ Answered

\* the answer of GET /api/status
StatusAnswer(store, session, id) ==
  IF session = "" \/ id = ""
  THEN JsonError(400, "Missing session or id")
  ELSE IF ~getSession(store, session).found
  THEN JsonError(404, "Session not found")
  ELSE IF id \notin DOMAIN store[session].commands
  THEN JsonError(404, "Command not found")
  ELSE Json([status |-> store[session].records[store[session].commands[id]].status])

\* GET /api/status
GetStatus ==
  /\ pc = "idle"
  /\ \E session \in SessionInputs, id \in IdInputs :
       /\ req' = SessionRequest("/api/status", session, NoCommand, id)
       /\ res' = StatusAnswer(sessions, session, id)
  /\ UNCHANGED sessions
  /\ Answered

SessionNext ==
  \/ PostSession
  \/ GetSession
  \/ PostCmd
  \/ GetCheck
  \/ GetStatus

(***************************************************************************)
(* POST /api/replicate and POST /api/refine: a prediction is submitted and *)
(* its status fetched until it is terminal or the time is up.  elapsed is  *)
(* Date.now() - startedAt in milliseconds; time passes only while the      *)
(* handler awaits (a timer firing late counts as duration of the next      *)
(* request).                                                               *)
(***************************************************************************)
TimeoutMs == 120000
PollWaitMs == 1200

\* how long a status request may take, in milliseconds
FetchDurations == {0, 40000}

\* prediction.output: absent, a string, an object with a url, or an array
OutputString(u) == [kind |-> "string", url |-> u, items |-> <<>>]
OutputObject(u) == [kind |-> "object", url |-> u, items |-> <<>>]
OutputArray(items) == [kind |-> "array", url |-> "", items |-> items]

Outputs ==
  {NoOutput, OutputString("https://img/r"), OutputObject("https://img/o"),
   OutputArray(<<OutputString("https://img/1")>>),
   OutputArray(<<OutputObject("https://img/1"), OutputString("https://img/2")>>)}

Succeeded == {Prediction("succeeded", "", TRUE, o) : o \in Outputs}

\* the bodies a prediction request may answer with: a prediction in any
\* status, or an error body without status
Predictions ==
  Succeeded
  \cup {Prediction("starting", "", TRUE, NoOutput),
        Prediction("processing", "", TRUE, NoOutput),
        Prediction("starting", "", FALSE, NoOutput),
        Prediction("failed", "NSFW content detected", TRUE, NoOutput),
        Prediction("failed", "", TRUE, NoOutput),
        Prediction("canceled", "", TRUE, NoOutput),
        Prediction("", "Invalid token", FALSE, NoOutput),
        Prediction("", "", FALSE, NoOutput)}

SubmitResponses ==
  {[ok |-> TRUE, prediction |-> p] : p \in Predictions}
  \cup {[ok |-> FALSE, prediction |-> p] :
          p \in {Prediction("", "Invalid token", FALSE, NoOutput),
                 Prediction("", "", FALSE, NoOutput),
                 Prediction("failed", "NSFW content detected", TRUE, NoOutput)}}

JobRoutes == {"/api/replicate", "/api/refine"}

JobRequestBody(route, prompt, input_image) ==
  [message |-> "", state |-> NoState, route |-> route, session |-> "",
   command |-> <<>>, id |-> "", prompt |-> prompt,
   input_image |-> input_image]

JobRequests ==
  {JobRequestBody(route, prompt, input_image) :
     route \in JobRoutes, prompt \in {"", "a cat"},
     input_image \in {"", "https://img/in"}}

SubmitCall == [to |-> "predictions", call |-> 0]
StatusCall == [to |-> "prediction.urls.get", call |-> 0]

\* the catch block of the handler
JobCatch ==
  JsonError(500, IF job.route = "/api/replicate"
                 THEN "Replicate request failed" ELSE "Refine request failed")

\* !response.ok
SubmitFailed_Never(response) == FALSE

SubmitFailed(response) == ~response.ok

\* the statuses that end the while loop
IsTerminal_SucceededOnly(status) == status = "succeeded"

IsTerminal(status) == status \in {"succeeded", "failed", "canceled"}

\* Date.now() - startedAt > 120000
TimedOut_Late(elapsed) == elapsed > 2 * TimeoutMs

TimedOut(elapsed) == elapsed > TimeoutMs

\* item && item.url ? item.url : item (a string value u is OutputString(u))
ImageOf(item) ==
  IF item.kind = "object" /\ item.url # "" THEN OutputString(item.url)
  ELSE item

\* !imageUrl
Falsy(value) ==
  value.kind = "none" \/ (value.kind = "string" /\ value.url = "")

JobAnswer_IgnoresStatus(route, prediction) ==
  IF route = "/api/replicate"
  THEN Json([images |-> IF prediction.output.kind = "array"
                        THEN [n \in 1..Len(prediction.output.items) |->
                                ImageOf(prediction.output.items[n])]
                        ELSE <<>>,
             status |-> prediction.status])
  ELSE IF Falsy(ImageOf(prediction.output))
  THEN JsonError(500, "No output image")
  ELSE Json([image |-> ImageOf(prediction.output)])

\* the code after the loop: the answer for a terminal prediction
JobAnswer(route, prediction) ==
  IF prediction.status # "succeeded"
  THEN JsonError(500, Or(prediction.error, "Replicate failed"))
  ELSE IF route = "/api/replicate"
  THEN Json([images |-> IF prediction.output.kind = "array"
                        THEN [n \in 1..Len(prediction.output.items) |->
                                ImageOf(prediction.output.items[n])]
                        ELSE <<>>,
             status |-> prediction.status])
  ELSE IF Falsy(ImageOf(prediction.output))
  THEN JsonError(500, "No output image")
  ELSE Json([image |-> ImageOf(prediction.output)])

\* the test of the while loop on the prediction just received, and its body
\* up to the timer
PollLoop(prediction, elapsed) ==
  IF IsTerminal(prediction.status)
  THEN /\ res' = JobAnswer(job.route, prediction)
       /\ pc' = "done"
  ELSE IF TimedOut(elapsed)
  THEN /\ res' = JsonError(500, "Replicate request timed out")
       /\ pc' = "done"
  ELSE /\ pc' = "wait"
       /\ UNCHANGED res

JobUnchanged ==
  UNCHANGED <<env, first, path, calls, k, toolResults, toolOutputs, fetching,
              execLog, inferred, clockRead, second, sessions, proxy>>

\* the handler from the request to the submission of the prediction
JobRequest ==
  /\ pc = "idle"
  /\ \E body \in JobRequests :
       /\ req' = body
       /\ IF \/ body.prompt = ""
             \/ (body.route = "/api/refine" /\ body.input_image = "")
          THEN /\ res' = JsonError(400, IF body.route = "/api/replicate"
                                        THEN "Missing prompt"
                                        ELSE "Missing prompt or input_image")
               /\ pc' = "done"
               /\ UNCHANGED <<outbound, job>>
          ELSE IF ~env.replicateToken
          THEN /\ res' = JsonError(500, "Missing REPLICATE_API_TOKEN")
               /\ pc' = "done"
               /\ UNCHANGED <<outbound, job>>
          ELSE /\ outbound' = Append(outbound, SubmitCall)
               /\ job' = [NoJob EXCEPT !.route = body.route]
               /\ pc' = "submit"
               /\ UNCHANGED res
  /\ JobUnchanged

\* the response of the submission arrives
JobSubmitReturns ==
  /\ pc = "submit"
  /\ \E response \in SubmitResponses :
       /\ job' = [job EXCEPT !.prediction = response.prediction,
                             !.responses = 1,
                             !.submitOk = response.ok]
       /\ IF SubmitFailed(response)
          THEN /\ res' = JsonError(500, Or(response.prediction.error,
                                           "Replicate request failed"))
               /\ pc' = "done"
          ELSE PollLoop(response.prediction, 0)
  /\ UNCHANGED <<req, outbound>>
  /\ JobUnchanged

\* the submission rejects, or its body is not JSON
JobSubmitRejects ==
  /\ pc = "submit"
  /\ res' = JobCatch
  /\ pc' = "done"
  /\ UNCHANGED <<req, outbound, job>>
  /\ JobUnchanged

\* the timer fires: the status is requested (prediction.urls.get throws a
\* TypeError when the last body carried no urls)
JobWaitEnds ==
  /\ pc = "wait"
  /\ job' = [job EXCEPT !.elapsed = @ + PollWaitMs]
  /\ IF job.prediction.hasUrls
     THEN /\ outbound' = Append(outbound, StatusCall)
          /\ pc' = "poll"
          /\ UNCHANGED res
     ELSE /\ res' = JobCatch
          /\ pc' = "done"
          /\ UNCHANGED outbound
  /\ UNCHANGED req
  /\ JobUnchanged

\* the response of the status request arrives
JobPollReturns ==
  /\ pc = "poll"
  /\ \E prediction \in Predictions, d \in FetchDurations :
       /\ job' = [job EXCEPT !.prediction = prediction,
                             !.responses = @ + 1,
                             !.elapsed = @ + d]
       /\ PollLoop(prediction, job.elapsed + d)
  /\ UNCHANGED <<req, outbound>>
  /\ JobUnchanged

\* the status request rejects, or its body is not JSON
JobPollRejects ==
  /\ pc = "poll"
  /\ res' = JobCatch
  /\ pc' = "done"
  /\ UNCHANGED <<req, outbound, job>>
  /\ JobUnchanged

JobNext ==
  \/ JobRequest
  \/ JobSubmitReturns
  \/ JobSubmitRejects
  \/ JobWaitEnds
  \/ JobPollReturns
  \/ JobPollRejects
  \/ Finish

JobInit ==
  /\ env \in {Env(TRUE, TRUE), Env(TRUE, FALSE)}
  /\ Started

JobSpec == JobInit /\ [][JobNext]_vars

\* the timer fires and every status request is answered
JobFairSpec ==
  JobSpec /\ WF_vars(JobWaitEnds) /\ WF_vars(JobPollReturns)

(***************************************************************************)
(* The proxy handlers: GET /api/unsplash, /api/pexels, /api/weather and    *)
(* POST /api/generate, /api/generate_batch, /api/transcribe.  Each passes  *)
(* one request (the batch one request per prompt, Pexels at most two) to   *)
(* an upstream service and answers with a digest of the response.          *)
(***************************************************************************)
\* an absent query parameter or body field (undefined)
NoParam == ""

\* largest number of prompts in a batch
MaxPrompts == 2
\* Math.floor(Math.random() * 50) + 1 is a page from 1 to MaxRandomPage
MaxRandomPage == 50

\* `${process.env.X}` and a header value process.env.X: the text "undefined"
\* when the variable is not set
EnvText(isSet, value) == IF isSet THEN value ELSE "undefined"

\* encodeURIComponent, for text of letters, digits and spaces
RECURSIVE encodeURIComponent(_)
encodeURIComponent(s) ==
  IF Len(s) = 0 THEN ""
  ELSE (IF IsSpace(Ch(s, 1)) THEN "%20" ELSE Ch(s, 1))
       \o encodeURIComponent(SubSeq(s, 2, Len(s)))

\* req.query.random === "1" || req.query.random === "true"
IsRandom(random) == random \in {"1", "true"}

\* the orientation of a ratio; square is the word the service uses for 1:1
Orientation(ratio, square) ==
  IF StartsAt(ratio, "1:1", 1) THEN square
  ELSE IF ratio \in {"4:3", "16:9"} THEN "landscape"
  ELSE IF ratio \in {"3:4", "9:16"} THEN "portrait"
  ELSE ""

OrientationParam(orientation) ==
  IF orientation # "" THEN "&orientation=" \o orientation ELSE ""

\* Number(req.query.page || 1), Number(req.query.w || 0): an absent number
\* parameter is written 0
PageOf(page) == IF page = 0 THEN 1 ELSE page

ProxyRequestBody(route, params) ==
  [message |-> "", state |-> NoState, route |-> route, session |-> "",
   command |-> <<>>, id |-> "", params |-> params]

\* a GET request carries no body
NoBody == [prompt |-> "", n |-> 0, size |-> "", model |-> ""]

ProxyFetch(url, authorization, body) ==
  [to |-> url, call |-> 0, authorization |-> authorization, body |-> body]

\* the catch block of each handler
ProxyCatch(route) ==
  CASE route = "/api/unsplash" -> "Unsplash proxy failed"
    [] route = "/api/pexels" -> "Pexels proxy failed"
    [] route = "/api/weather" -> "Weather proxy failed"
    [] route = "/api/generate" -> "OpenAI proxy failed"
    [] route = "/api/generate_batch" -> "Batch generation failed"
    [] OTHER -> "Transcription failed"

ProxyUnchanged ==
  UNCHANGED <<env, first, path, calls, k, toolResults, toolOutputs, fetching,
              execLog, inferred, clockRead, second, sessions, job>>

\* the handler answered before any await
ProxyAnswers(response) ==
  /\ res' = response
  /\ pc' = "done"
  /\ UNCHANGED <<outbound, proxy>>

\* the handler awaits its first upstream request
ProxyAwaits(route, request) ==
  /\ outbound' = Append(outbound, request)
  /\ proxy' = [NoProxy EXCEPT !.route = route]
  /\ pc' = route
  /\ UNCHANGED res

\* ---- GET /api/unsplash -------------------------------------------------
UnsplashQueries ==
  [q : {NoParam, "red cat"}, page : {0, 2}, random : {NoParam, "1", "yes"},
   ratio : {NoParam, "1:1", "16:9", "3:4"}, w : {0, 400}, h : {0, 300}]

UnsplashUrl(query) ==
  LET orientationParam ==
        OrientationParam(Orientation(query.ratio, "squarish"))
  IN IF IsRandom(query.random)
     THEN "https://api.unsplash.com/photos/random?query="
          \o encodeURIComponent(query.q)
          \o "&count=30"
          \o orientationParam
          \o "&client_id=" \o EnvText(env.unsplashKey, "unsplash-key")
     ELSE "https://api.unsplash.com/search/photos?query="
          \o encodeURIComponent(query.q)
          \o "&page=" \o ToString(PageOf(query.page))
          \o "&per_page=30"
          \o orientationParam
          \o "&client_id=" \o EnvText(env.unsplashKey, "unsplash-key")

Photo(raw, regular) == [hasUrls |-> TRUE, raw |-> raw, regular |-> regular]
NoUrlsPhoto == [hasUrls |-> FALSE, raw |-> "", regular |-> ""]

\* the JSON bodies of Unsplash (errors is the text of data.errors): an
\* errors body, the array of the random
\* endpoint, the page of the search endpoint, and a body without results
UnsplashBodies ==
  {[errors |-> "OAuth error: The access token is invalid",
    isArray |-> FALSE, results |-> <<>>, total_pages |-> 0],
   [errors |-> NoParam, isArray |-> TRUE,
    results |-> <<Photo("https://u/raw1?ixid=1", "https://u/reg1")>>,
    total_pages |-> 0],
   [errors |-> NoParam, isArray |-> FALSE,
    results |-> <<Photo("", "https://u/reg2"), NoUrlsPhoto>>,
    total_pages |-> 3],
   [errors |-> NoParam, isArray |-> FALSE, results |-> <<>>,
    total_pages |-> 0]}

\* the callback of results.map (null is written "")
UnsplashImage(x, width, height) ==
  IF ~x.hasUrls THEN ""
  ELSE IF width > 0 /\ x.raw # ""
  THEN x.raw \o "&w=" \o ToString(width)
       \o (IF height > 0 THEN "&h=" \o ToString(height) ELSE "")
       \o "&auto=format&fit=crop"
  ELSE x.regular

UnsplashAnswer(query, data) ==
  IF data.errors # NoParam THEN JsonError(500, data.errors)
  ELSE LET images ==
             SelectSeq([n \in 1..Len(data.results) |->
                          UnsplashImage(data.results[n], query.w, query.h)],
                       LAMBDA u : u # "")
       IN Json([images |-> images,
                page |-> IF IsRandom(query.random) THEN 1
                         ELSE PageOf(query.page),
                totalPages |-> IF IsRandom(query.random) THEN 1
                               ELSE PageOf(data.total_pages)])

UnsplashRequest ==
  /\ pc = "idle"
  /\ \E query \in UnsplashQueries :
       /\ req' = ProxyRequestBody("/api/unsplash", query)
       /\ IF query.q = NoParam
          THEN ProxyAnswers(JsonError(400, "Missing ?q="))
          ELSE ProxyAwaits("/api/unsplash",
                           ProxyFetch(UnsplashUrl(query), NoParam, NoBody))
  /\ ProxyUnchanged

UnsplashReturns ==
  /\ pc = "/api/unsplash"
  /\ \E data \in UnsplashBodies :
       res' = UnsplashAnswer(req.params, data)
  /\ pc' = "done"
  /\ UNCHANGED <<req, outbound, proxy>>
  /\ ProxyUnchanged

\* ---- GET /api/pexels ---------------------------------------------------
PexelsQueries ==
  [q : {NoParam, "red cat"}, page : {0, 2}, random : {NoParam, "true"},
   ratio : {NoParam, "1:1", "9:16"}]

PexelsUrl(query, page) ==
  "https://api.pexels.com/v1/search?query=" \o encodeURIComponent(query.q)
  \o "&per_page=30&page=" \o ToString(page)
  \o OrientationParam(Orientation(query.ratio, "square"))

PexelsFetch(query, page) ==
  ProxyFetch(PexelsUrl(query, page), EnvText(env.pexelsKey, "pexels-key"),
             NoBody)

PexelsResponses ==
  {[ok |-> TRUE, status |-> 200, text |-> "", photos |-> <<"https://p/1">>],
   [ok |-> TRUE, status |-> 200, text |-> "", photos |-> <<>>],
   [ok |-> FALSE, status |-> 500, text |-> "Internal Server Error"],
   [ok |-> FALSE, status |-> 401, text |-> "Unauthorized"]}

PexelsError(r) ==
  JsonError(500, "Pexels " \o ToString(r.status) \o ": " \o r.text)

\* the first response makes the handler search again: it succeeded, the
\* search is a random one, and it found no photo
PexelsRetries(random, r) == r.ok /\ IsRandom(random) /\ Len(r.photos) = 0

PexelsRequest ==
  /\ pc = "idle"
  /\ \E query \in PexelsQueries, randomPage \in {1, MaxRandomPage} :
       /\ req' = ProxyRequestBody("/api/pexels", query)
       /\ IF query.q = NoParam
          THEN ProxyAnswers(JsonError(400, "Missing ?q="))
          ELSE LET pickPage == IF IsRandom(query.random) THEN randomPage
                               ELSE PageOf(query.page)
               IN ProxyAwaits("/api/pexels", PexelsFetch(query, pickPage))
  /\ ProxyUnchanged

\* the first response arrives: an error, the images, or the retry of a
\* random search that found nothing
PexelsReturns ==
  /\ pc = "/api/pexels"
  /\ proxy.index = 0
  /\ \E r \in PexelsResponses :
       /\ proxy' = [proxy EXCEPT
                      !.statuses = Append(@, r.status),
                      !.index = IF PexelsRetries(req.params.random, r)
                                THEN 1 ELSE @]
       /\ IF PexelsRetries(req.params.random, r)
          THEN /\ outbound' = Append(outbound, PexelsFetch(req.params, 1))
               /\ UNCHANGED <<pc, res>>
          ELSE /\ res' = IF ~r.ok THEN PexelsError(r)
                         ELSE Json([images |-> r.photos])
               /\ pc' = "done"
               /\ UNCHANGED outbound
  /\ UNCHANGED req
  /\ ProxyUnchanged

\* the response of the retry arrives
PexelsRetryReturns ==
  /\ pc = "/api/pexels"
  /\ proxy.index = 1
  /\ \E retry \in PexelsResponses :
       /\ proxy' = [proxy EXCEPT !.statuses = Append(@, retry.status)]
       /\ res' = IF ~retry.ok THEN PexelsError(retry)
                 ELSE Json([images |-> retry.photos])
       /\ pc' = "done"
       /\ UNCHANGED outbound
  /\ UNCHANGED req
  /\ ProxyUnchanged

\* ---- GET /api/weather --------------------------------------------------
\* Number(req.query.lat): NaN for an absent or non-numeric parameter
NumberOf(s) ==
  CASE s = "48.85" -> [finite |-> TRUE, text |-> "48.85"]
    [] s = "07" -> [finite |-> TRUE, text |-> "7"]
    [] OTHER -> [finite |-> FALSE, text |-> "NaN"]

WeatherQueries == [lat : {NoParam, "48.85", "abc"}, lon : {NoParam, "07"}]

WeatherUrl(lat, lon) ==
  "https://api.openweathermap.org/data/2.5/weather"
  \o "?lat=" \o encodeURIComponent(lat.text)
  \o "&lon=" \o encodeURIComponent(lon.text)
  \o "&units=metric"
  \o "&appid=" \o encodeURIComponent(EnvText(env.weatherKey, "weather-key"))

\* the bodies of OpenWeather (an absent field is NoParam or an empty list)
WeatherResponses ==
  {[ok |-> TRUE, message |-> "", name |-> "Paris", main |-> <<"21.5", "40">>,
    weather |-> <<[description |-> "clear sky", main |-> "Clear",
                   icon |-> "01d"]>>,
    wind |-> <<"3.1">>],
   [ok |-> TRUE, message |-> "", name |-> NoParam, main |-> <<>>,
    weather |-> <<>>, wind |-> <<>>],
   [ok |-> FALSE, message |-> "Invalid API key", name |-> NoParam,
    main |-> <<>>, weather |-> <<>>, wind |-> <<>>],
   [ok |-> FALSE, message |-> "", name |-> NoParam, main |-> <<>>,
    weather |-> <<>>, wind |-> <<>>]}

WeatherAnswer(data) ==
  IF ~data.ok
  THEN JsonError(500, Or(data.message, "Weather request failed"))
  ELSE LET info == IF Len(data.weather) > 0 THEN data.weather[1]
                   ELSE [description |-> "", main |-> "", icon |-> ""]
       IN Json([city |-> data.name,
                temp |-> IF Len(data.main) > 0 THEN data.main[1] ELSE "null",
                description |-> info.description,
                main |-> info.main,
                icon |-> info.icon,
                humidity |-> IF Len(data.main) > 0 THEN data.main[2]
                             ELSE "null",
                wind |-> IF Len(data.wind) > 0 THEN data.wind[1]
                         ELSE "null"])

WeatherRequest ==
  /\ pc = "idle"
  /\ \E query \in WeatherQueries :
       LET lat == NumberOf(query.lat)
           lon == NumberOf(query.lon)
       IN /\ req' = ProxyRequestBody("/api/weather", query)
          /\ IF ~lat.finite \/ ~lon.finite
             THEN ProxyAnswers(JsonError(400, "Missing or invalid lat/lon"))
             ELSE IF ~env.weatherKey
             THEN ProxyAnswers(JsonError(500, "Missing WEATHER_API_KEY"))
             ELSE ProxyAwaits("/api/weather",
                              ProxyFetch(WeatherUrl(lat, lon), NoParam,
                                         NoBody))
  /\ ProxyUnchanged

WeatherReturns ==
  /\ pc = "/api/weather"
  /\ \E data \in WeatherResponses :
       res' = WeatherAnswer(data)
  /\ pc' = "done"
  /\ UNCHANGED <<req, outbound, proxy>>
  /\ ProxyUnchanged

\* ---- POST /api/generate and /api/generate_batch --------------------------
ImagesUrl == "https://api.openai.com/v1/images/generations"

Bearer(isSet, value) == "Bearer " \o EnvText(isSet, value)

ImagesFetch(prompt, n, size, model) ==
  ProxyFetch(ImagesUrl, Bearer(env.openaiKey, "openai-key"),
             [prompt |-> prompt, n |-> n, size |-> size, model |-> model])

GenerateBodies ==
  [prompt : {NoParam, "a cat"}, size : {NoParam, "512x512"},
   model : {NoParam, "dall-e-3"}]

\* the bodies of the images endpoint: images, an error, neither
ImagesResponses ==
  {[data |-> <<"b64-1">>, error |-> ""],
   [data |-> <<>>, error |-> "Invalid prompt"],
   [data |-> <<>>, error |-> ""]}

GenerateRequest ==
  /\ pc = "idle"
  /\ \E body \in GenerateBodies :
       /\ req' = ProxyRequestBody("/api/generate", body)
       /\ IF body.prompt = NoParam
          THEN ProxyAnswers(JsonError(400, "Missing prompt"))
          ELSE IF ~env.openaiKey
          THEN ProxyAnswers(JsonError(500, "Missing OPENAI_KEY"))
          ELSE ProxyAwaits("/api/generate",
                           ImagesFetch(body.prompt, 3,
                                       Or(body.size, "1024x1024"),
                                       Or(body.model, "gpt-image-1")))
  /\ ProxyUnchanged

\* res.json(data): the body of the images endpoint as it is
GenerateReturns ==
  /\ pc = "/api/generate"
  /\ \E data \in ImagesResponses :
       res' = Json(data)
  /\ pc' = "done"
  /\ UNCHANGED <<req, outbound, proxy>>
  /\ ProxyUnchanged

\* prompts is an array or something else
BatchBodies ==
  {[isArray |-> FALSE, prompts |-> <<>>, size |-> NoParam, model |-> NoParam],
   [isArray |-> TRUE, prompts |-> <<>>, size |-> NoParam, model |-> NoParam],
   [isArray |-> TRUE, prompts |-> <<"a cat">>, size |-> "512x512",
    model |-> NoParam],
   [isArray |-> TRUE, prompts |-> <<"a cat", "a dog">>, size |-> NoParam,
    model |-> "dall-e-3"]}

BatchFetch(body, n) ==
  ImagesFetch(body.prompts[n], 1, Or(body.size, "1024x1024"),
              Or(body.model, "gpt-image-1"))

BatchRequest ==
  /\ pc = "idle"
  /\ \E body \in BatchBodies :
       /\ Len(body.prompts) <= MaxPrompts
       /\ req' = ProxyRequestBody("/api/generate_batch", body)
       /\ IF ~body.isArray \/ Len(body.prompts) = 0
          THEN ProxyAnswers(JsonError(400, "prompts must be array"))
          ELSE IF ~env.openaiKey
          THEN ProxyAnswers(JsonError(500, "Missing OPENAI_KEY"))
          ELSE /\ outbound' = Append(outbound, BatchFetch(body, 1))
               /\ proxy' = [NoProxy EXCEPT !.route = "/api/generate_batch",
                                           !.index = 1]
               /\ pc' = "/api/generate_batch"
               /\ UNCHANGED res
  /\ ProxyUnchanged

\* the response for prompt number proxy.index arrives: the next prompt is
\* sent, or the answer after the last one
BatchReturns ==
  /\ pc = "/api/generate_batch"
  /\ \E data \in ImagesResponses :
       LET results == IF Len(data.data) > 0
                      THEN Append(proxy.results, data.data[1])
                      ELSE proxy.results
           errors == IF Len(data.data) = 0 /\ data.error # ""
                     THEN Append(proxy.errors, data.error)
                     ELSE proxy.errors
       IN IF proxy.index < Len(req.params.prompts)
          THEN /\ outbound' =
                    Append(outbound, BatchFetch(req.params, proxy.index + 1))
               /\ proxy' = [proxy EXCEPT !.index = @ + 1,
                                         !.results = results,
                                         !.errors = errors]
               /\ UNCHANGED <<pc, res>>
          ELSE /\ res' = Json([data |-> results,
                               error |-> IF Len(errors) > 0 THEN errors[1]
                                         ELSE NoParam])
               /\ proxy' = [proxy EXCEPT !.results = results,
                                         !.errors = errors]
               /\ pc' = "done"
               /\ UNCHANGED outbound
  /\ UNCHANGED req
  /\ ProxyUnchanged

\* ---- POST /api/transcribe ----------------------------------------------
TranscribeBodies == [audio : {NoParam, "UklGRg=="}, mime : {NoParam, "audio/ogg"}]

TranscribeResponses ==
  {[ok |-> TRUE, text |-> "show me cats", error |-> ""],
   [ok |-> TRUE, text |-> NoParam, error |-> ""],
   [ok |-> FALSE, text |-> NoParam, error |-> "Invalid file format"],
   [ok |-> FALSE, text |-> NoParam, error |-> ""]}

TranscribeRequest ==
  /\ pc = "idle"
  /\ \E body \in TranscribeBodies :
       /\ req' = ProxyRequestBody("/api/transcribe", body)
       /\ IF body.audio = NoParam
          THEN ProxyAnswers(JsonError(400, "Missing audio"))
          ELSE IF ~env.plannerKey
          THEN ProxyAnswers(JsonError(500, "Missing OPENAI_API_KEY"))
          ELSE ProxyAwaits("/api/transcribe",
                 ProxyFetch("https://api.openai.com/v1/audio/transcriptions",
                            Bearer(env.plannerKey, "openai-key"),
                            [model |-> "whisper-1", file |-> body.audio,
                             filename |-> "speech.webm",
                             contentType |-> Or(body.mime, "audio/webm")]))
  /\ ProxyUnchanged

TranscribeReturns ==
  /\ pc = "/api/transcribe"
  /\ \E data \in TranscribeResponses :
       res' = IF ~data.ok
              THEN JsonError(500, Or(data.error, "Transcription failed"))
              ELSE Json([text |-> data.text])
  /\ pc' = "done"
  /\ UNCHANGED <<req, outbound, proxy>>
  /\ ProxyUnchanged

\* ---- every proxy handler -------------------------------------------------
ProxyRoutes ==
  {"/api/unsplash", "/api/pexels", "/api/weather", "/api/generate",
   "/api/generate_batch", "/api/transcribe"}

\* the awaited request rejects, or its body is not JSON: the catch block
ProxyRejects ==
  /\ pc \in ProxyRoutes
  /\ res' = JsonError(500, ProxyCatch(proxy.route))
  /\ pc' = "done"
  /\ UNCHANGED <<req, outbound, proxy>>
  /\ ProxyUnchanged

ProxyNext ==
  \/ UnsplashRequest
  \/ UnsplashReturns
  \/ PexelsRequest
  \/ PexelsReturns
  \/ PexelsRetryReturns
  \/ WeatherRequest
  \/ WeatherReturns
  \/ GenerateRequest
  \/ GenerateReturns
  \/ BatchRequest
  \/ BatchReturns
  \/ TranscribeRequest
  \/ TranscribeReturns
  \/ ProxyRejects
  \/ Finish

\* every environment (OPENAI_KEY set makes the planner key set)
ProxyEnvs ==
  {e \in [plannerKey : BOOLEAN, replicateToken : {TRUE}, openaiKey : BOOLEAN,
          weatherKey : BOOLEAN, unsplashKey : BOOLEAN, pexelsKey : BOOLEAN] :
     e.openaiKey => e.plannerKey}

ProxyInit ==
  /\ env \in ProxyEnvs
  /\ Started

ProxySpec == ProxyInit /\ [][ProxyNext]_vars

Next ==
  \/ AgentRequest
  \/ PlannerFirstFails
  \/ PlannerFirstReturns
  \/ ExecuteToolCall
  \/ FetchReturns
  \/ FetchRejects
  \/ PlannerSecondReturns
  \/ PlannerSecondFails
  \/ Finish

Spec == Init /\ [][Next]_vars

\* the agent and the session handlers together
ServerNext ==
  \/ Next
  \/ SessionNext

ServerSpec == Init /\ [][ServerNext]_vars

\* the session handlers on their own, with longer queues
SessionsNext ==
  \/ PostSession
  \/ GetSession
  \/ PostCmdUpTo(MaxQueued)
  \/ GetCheck
  \/ GetStatus
  \/ Finish

SessionsSpec == Init /\ [][SessionsNext]_vars

(***************************************************************************)
(* Properties.                                                             *)
(***************************************************************************)
\* the text the resolver works on, and whether the resolver ran this turn
Text == Trim(ToLowerCase(req.message))
Resolved == inferred.kind # "unused"

\* C1: a turn whose message is empty or missing ends with status 400 and
\* the error "Missing message", and makes no outbound request (no planner
\* request, no tool execution).
C1_EmptyMessageRejected ==
  (pc # "idle" /\ req.message = "") =>
     /\ pc = "done"
     /\ res = JsonError(400, "Missing message")
     /\ outbound = <<>>
     /\ execLog = <<>>

C1_Witness ==
  /\ pc = "done"
  /\ req.message = ""
  /\ env.plannerKey
  /\ res.status = 400

\* C2: when the first planner response carries two or more tool
\* invocations, executeToolCall is invoked at most once in the turn.
C2_OnlyFirstInvocationExecuted ==
  Len(extractToolCalls(first)) >= 2 => Len(execLog) <= 1

\* C3: every finished execution of a schema-valid tool call has its
\* ToolResult record in toolResults, carrying the result (and no error) when
\* the call returned, and the error (and no result) when the call failed.
C3_ExactlyOneOfResultAndError ==
  \A i \in 1..Len(execLog) :
    (SchemaValid(execLog[i].name, execLog[i].args)
       /\ execLog[i].outcome # "running") =>
      /\ i <= Len(toolResults)
      /\ execLog[i].outcome = "returned" =>
           (Has(toolResults[i], "result") /\ ~Has(toolResults[i], "error"))
      /\ execLog[i].outcome = "threw" =>
           (Has(toolResults[i], "error") /\ ~Has(toolResults[i], "result"))

\* C4: every finished turn with a non-empty message (the planner key being
\* configured) answers with a non-empty reply, also when a planner request
\* failed or returned no text.
C4_ReplyNeverEmpty ==
  (pc = "done" /\ req.message # "" /\ env.plannerKey) =>
     (res.hasReply /\ res.reply # "")

\* C5: when the first planner response carries text and no tool
\* invocation, the heuristic resolver is not applied: no tool is executed
\* and the turn answers with the planner text.
C5_HeuristicsOnlyWithoutText ==
  (/\ pc \notin {"idle", "plan1"}
   /\ Len(extractToolCalls(first)) = 0
   /\ extractOutputText(first) # "") =>
     /\ ~Resolved
     /\ execLog = <<>>
     /\ pc = "done" => res.reply = extractOutputText(first)

\* the offset phrases the history rule turns into a date
OffsetPhrases ==
  <<"yesterday", U6628 \o U5929, U524D \o U5929, "last week", U4E0A \o U5468>>

\* C6: when the resolver ran on a historical-weather message with no
\* resolvable city or no resolvable date (neither an ISO date nor an offset
\* phrase), the turn answers with a clarifying question, an empty tools list
\* and no tool execution; and no get_weather_history call inferred by the
\* resolver carries an empty city or date.
C6_HistoryNeverGuesses ==
  /\ (/\ Resolved
      /\ wantsHistory(Text)
      /\ \/ extractCity(Text) = ""
         \/ (parseISODate(Text) = "" /\ ~TestAny(Text, OffsetPhrases))) =>
        /\ inferred.kind = "reply"
        /\ inferred.reply \in {"Which city?", "Which date should I check?"}
        /\ execLog = <<>>
        /\ outbound = <<PlannerCall>>
        /\ pc = "done"
        /\ res = JsonReply(<<>>, inferred.reply)
  /\ \A i \in 1..Len(execLog) :
       (path = "heuristic" /\ execLog[i].name = "get_weather_history") =>
          (Arg(execLog[i].args, "city") # "" /\ Arg(execLog[i].args, "date") # "")

C6_Witness ==
  /\ pc = "done"
  /\ wantsHistory(Text)
  /\ extractCity(Text) # ""
  /\ inferred.reply = "Which date should I check?"
  /\ res.reply = "Which date should I check?"

\* the value of a string of decimal digits
RECURSIVE DigitsValue(_)
DigitsValue(s) ==
  IF Len(s) = 0 THEN 0
  ELSE 10 * DigitsValue(SubSeq(s, 1, Len(s) - 1))
       + (IndexIn(DigitAlphabet, Ch(s, Len(s))) - 1)

\* number of the day y-m-d, counted from 1970-01-01 in the proleptic
\* Gregorian calendar
DayNumber(y, m, d) ==
  LET yy == IF m <= 2 THEN y - 1 ELSE y
      era == yy \div 400
      yoe == yy - era * 400
      mp == IF m > 2 THEN m - 3 ELSE m + 9
      doy == (153 * mp + 2) \div 5 + d - 1
      doe == yoe * 365 + yoe \div 4 - yoe \div 100 + doy
  IN era * 146097 + doe - 719468

\* C7: when the resolver ran on a message that contains "yesterday", no ISO
\* date and a resolvable city, it infers get_weather_history whose date is
\* ten characters YYYY-MM-DD naming the day before the current date, and
\* that is the call executed.
C7_YesterdayIsTodayMinusOne ==
  (/\ Resolved
   /\ Includes(Text, "yesterday")
   /\ parseISODate(Text) = ""
   /\ extractCity(Text) # "") =>
     /\ inferred.kind = "tools"
     /\ Len(inferred.tools) = 1
     /\ inferred.tools[1].name = "get_weather_history"
     /\ LET date == inferred.tools[1].args.date
            y == DigitsValue(SubSeq(date, 1, 4))
            m == DigitsValue(SubSeq(date, 6, 7))
            d == DigitsValue(SubSeq(date, 9, 10))
        IN /\ Len(date) = 10
           /\ IsoAt(date, 1)
           /\ m \in 1..12
           /\ d \in 1..31
           /\ DayNumber(y, m, d)
                = DayNumber(clockRead.y, clockRead.m, clockRead.d) - 1
           /\ \A i \in 1..Len(execLog) :
                /\ execLog[i].name = "get_weather_history"
                /\ execLog[i].args.date = date

C7_Witness ==
  /\ pc = "done"
  /\ Includes(Text, "yesterday")
  /\ clockRead = [y |-> 2024, m |-> 1, d |-> 1]
  /\ Len(execLog) = 1
  /\ execLog[1].name = "get_weather_history"
  /\ execLog[1].args.date = "2023-12-31"
  /\ execLog[1].outcome = "returned"

\* C8: for the message "weather in <City> yesterday" the resolver infers
\* get_weather_history whose city is the city name alone (compared without
\* regard to letter case).
C8_CityIsNameAlone ==
  \A c \in {"Paris", "Rome"} :
    (Resolved /\ req.message = "weather in " \o c \o " yesterday") =>
       /\ inferred.kind = "tools"
       /\ inferred.tools[1].name = "get_weather_history"
       /\ ToLowerCase(inferred.tools[1].args.city) = ToLowerCase(c)

\* C9: when the resolver ran on a message with a search keyword, no weather
\* and no history keyword, whose text is empty once the search phrases are
\* removed, the turn answers 200 with the question "What should I search
\* for?" and an empty tools list, and no tool is executed.
C9_EmptySearchAsks ==
  (/\ Resolved
   /\ wantsSearch(Text)
   /\ ~TestAny(Text, WeatherKeywords)
   /\ ~wantsHistory(Text)
   /\ searchQuery(Text) = "") =>
     /\ inferred = InferReply("What should I search for?")
     /\ execLog = <<>>
     /\ outbound = <<PlannerCall>>
     /\ pc = "done"
     /\ res = JsonReply(<<>>, "What should I search for?")

C9_Witness ==
  /\ pc = "done"
  /\ req.message = "find photos of"
  /\ res.status = 200
  /\ res.tools = <<>>
  /\ res.reply = "What should I search for?"

\* no text of a summary planner call is available to the finished turn
NoSummaryText ==
  \/ path = "heuristic"
  \/ second.status = "failed"
  \/ (second.status = "ok" /\ extractOutputText(second.data) = "")

\* C10: when a search_library call of a finished turn returned N images and
\* no summary text is available, the reply is "Found N images.".
C10_FoundNImages ==
  (pc = "done" /\ NoSummaryText) =>
    \A i \in 1..Len(execLog) :
      (execLog[i].name = "search_library" /\ execLog[i].outcome = "returned") =>
         /\ res.hasReply
         /\ res.reply = "Found " \o ToString(Len(execLog[i].result.images))
                        \o " images."

\* the outbound requests executeToolCall made for the i-th executed call
FetchesOf(i) ==
  {o \in 1..Len(outbound) : outbound[o].to # "planner" /\ outbound[o].call = i}

\* the registry entry of a tool name (the empty set when it has none)
SpecsOf(name) == {j \in 1..Len(tools) : tools[j].name = name}

\* C11: an executed call of a registered tool whose arguments lack a
\* required argument (or carry it empty) throws an error "Missing ..." and
\* returns no result, and no outbound request was made for it.
C11_MissingRequiredArgFails ==
  \A i \in 1..Len(execLog) :
    \A j \in SpecsOf(execLog[i].name) :
      (\E f \in tools[j].required : Arg(execLog[i].args, f) = "") =>
         /\ execLog[i].outcome = "threw"
         /\ Len(execLog[i].error) >= 7
         /\ SubSeq(execLog[i].error, 1, 7) = "Missing"
         /\ execLog[i].result = <<>>
         /\ FetchesOf(i) = {}
         /\ Len(toolResults) < i
         /\ pc = "done"
         /\ res = JsonError(500, execLog[i].error)

C11_Witness ==
  /\ pc = "done"
  /\ Len(execLog) = 1
  /\ execLog[1].name = "generate_ai"
  /\ ~Has(execLog[1].args, "prompt")
  /\ execLog[1].error = "Missing prompt"
  /\ outbound = <<PlannerCall>>

\* args break the enum of view, ratio or aspect_ratio, or the range of
\* count, in the registry entry j
ViolatesSchema(j, args) ==
  \/ \E f \in DOMAIN args \cap DOMAIN tools[j].enums \cap
               {"view", "ratio", "aspect_ratio"} :
       args[f] \notin tools[j].enums[f]
  \/ \E f \in DOMAIN args \cap DOMAIN tools[j].ranges :
       args[f] \notin tools[j].ranges[f]

\* C12: an executed call of a registered tool whose view, ratio or
\* aspect_ratio is outside its enum, or whose count is outside 1..5, throws:
\* it returns no result and no outbound request is made for it.
C12_SchemaViolationsNotDispatched ==
  \A i \in 1..Len(execLog) :
    \A j \in SpecsOf(execLog[i].name) :
      ViolatesSchema(j, execLog[i].args) =>
         /\ execLog[i].outcome = "threw"
         /\ FetchesOf(i) = {}

AtSetView ==
  /\ pc = "loop"
  /\ k <= Len(calls)
  /\ toolCallName(calls[k]) = "set_view"

\* C14: any two set_view executions of a turn with the same view return the
\* same result, the record {view} alone; no outbound request is made for a
\* set_view call; and the step that executes set_view changes neither the
\* sessions (their queues and command maps) nor the environment.
C14_SetViewIdempotent ==
  /\ [](\A i, j \in 1..Len(execLog) :
          (/\ execLog[i].name = "set_view"
           /\ execLog[j].name = "set_view"
           /\ Arg(execLog[i].args, "view") # ""
           /\ Arg(execLog[i].args, "view") = Arg(execLog[j].args, "view")) =>
             /\ execLog[i].outcome = "returned"
             /\ execLog[i].result = [view |-> execLog[i].args.view]
             /\ execLog[j].result = execLog[i].result
             /\ FetchesOf(i) = {})
  /\ [][AtSetView =>
          /\ sessions' = sessions
          /\ env' = env
          /\ job' = job
          /\ FetchesOf(k)' = {}]_vars

C14_Witness ==
  /\ Len(execLog) = 2
  /\ execLog[1].name = "set_view"
  /\ execLog[2].name = "set_view"
  /\ execLog[1].args = [view |-> "gallery"]
  /\ execLog[2].args = [view |-> "gallery"]
  /\ execLog[1].result = [view |-> "gallery"]
  /\ execLog[2].result = [view |-> "gallery"]
  /\ "S1" \in DOMAIN sessions
  /\ Len(sessions["S1"].queue) = 1

\* C15: an executed call whose name is no tool of the registry throws
\* "Unknown tool": no outbound request is made for it, it is the last
\* execution of the turn (nothing is retried or executed after it) and the
\* turn answers 500 with that error, without reply and without tool results.
C15_UnknownToolFailsTurn ==
  \A i \in 1..Len(execLog) :
    SpecsOf(execLog[i].name) = {} =>
       /\ execLog[i].outcome = "threw"
       /\ execLog[i].error = "Unknown tool"
       /\ FetchesOf(i) = {}
       /\ i = Len(execLog)
       /\ pc = "done"
       /\ res = JsonError(500, "Unknown tool")
       /\ ~res.hasReply
       /\ res.tools = <<>>

C15_Witness ==
  /\ pc = "done"
  /\ Len(execLog) = 2
  /\ execLog[1].name = "search_library"
  /\ execLog[1].outcome = "returned"
  /\ Len(toolResults) = 1
  /\ execLog[2].name = "delete_all"
  /\ execLog[2].error = "Unknown tool"
  /\ res.status = 500

\* the targets of the outbound requests made for the i-th executed call, in
\* the order they were made
TargetsOf(i) ==
  LET made == SelectSeq(outbound,
                        LAMBDA o : o.to # "planner" /\ o.call = i)
  IN [n \in 1..Len(made) |-> made[n].to]

GeocodeFailed(r) == r.rejected \/ ~r.ok \/ Len(r.results) = 0
ArchiveFailed(r) == r.rejected \/ ~r.ok \/ ~r.hasDaily

\* C16: an executed get_weather_history call with a city and a date
\* requests the geocoding first and the archive second, and nothing else;
\* the archive is requested only after a successful geocoding response with
\* at least one match, and a failed geocoding makes the call throw; a failed
\* archive response (non-success status, or no daily aggregate) makes the
\* call throw without a result; the call returns only after both succeeded.
C16_GeocodeThenArchive ==
  \A i \in 1..Len(execLog) :
    (/\ execLog[i].name = "get_weather_history"
     /\ Arg(execLog[i].args, "city") # ""
     /\ Arg(execLog[i].args, "date") # "") =>
       LET targets == TargetsOf(i)
           replies == execLog[i].replies
       IN /\ targets \in {<<"geocode">>, <<"geocode", "archive">>}
          /\ Len(replies) <= Len(targets)
          /\ Len(targets) = 2 => ~GeocodeFailed(replies[1])
          /\ (Len(replies) >= 1 /\ GeocodeFailed(replies[1])) =>
               /\ execLog[i].outcome = "threw"
               /\ execLog[i].error # ""
               /\ execLog[i].result = <<>>
               /\ targets = <<"geocode">>
          /\ (Len(replies) = 2 /\ ArchiveFailed(replies[2])) =>
               /\ execLog[i].outcome = "threw"
               /\ execLog[i].error # ""
               /\ execLog[i].result = <<>>
               /\ Len(toolResults) < i
          /\ execLog[i].outcome = "returned" =>
               /\ Len(replies) = 2
               /\ ~ArchiveFailed(replies[2])
               /\ execLog[i].result.city = replies[1].results[1].name

C16_Witness ==
  /\ pc = "done"
  /\ Len(execLog) = 1
  /\ execLog[1].name = "get_weather_history"
  /\ outbound = <<PlannerCall, ToolFetch("geocode", 1), ToolFetch("archive", 1)>>
  /\ Len(execLog[1].replies) = 2
  /\ execLog[1].replies[2].ok
  /\ ~execLog[1].replies[2].hasDaily
  /\ execLog[1].error = "Weather history failed"

\* the number of planner requests among the outbound requests of the turn
PlannerCalls == Len(SelectSeq(outbound, LAMBDA o : o.to = "planner"))

\* C17: an execution that received a rejected request, a non-success
\* status or a response with an error field has thrown; and once an
\* execution of a turn has thrown, it is the last execution of the turn, no
\* request is outstanding, no summary planner request was or will be made,
\* and the turn has ended with status 500 and the error of the failure.
C17_FailureEndsTurn ==
  \A i \in 1..Len(execLog) :
    /\ (\E n \in 1..Len(execLog[i].replies) :
          LET r == execLog[i].replies[n]
          IN r.rejected \/ ~r.ok \/ r.error # "") =>
         execLog[i].outcome = "threw"
    /\ execLog[i].outcome = "threw" =>
         /\ i = Len(execLog)
         /\ pc = "done"
         /\ fetching = NoFetch
         /\ PlannerCalls = 1
         /\ second = NoSecond
         /\ Len(toolResults) = i - 1
         /\ res = JsonError(500, execLog[i].error)

C17_Witness ==
  /\ pc = "done"
  /\ Len(calls) = 2
  /\ Len(execLog) = 1
  /\ execLog[1].name = "search_library"
  /\ Len(execLog[1].replies) = 1
  /\ ~execLog[1].replies[1].ok
  /\ execLog[1].outcome = "threw"
  /\ outbound = <<PlannerCall, ToolFetch("unsplash", 1)>>

\* the number of status requests made for the prediction
StatusFetches == Len(SelectSeq(outbound, LAMBDA o : o = StatusCall))

\* C18: once the submission of a prediction was answered with a
\* non-success status, the request has ended with status 500 and the error
\* of the response body (or "Replicate request failed" when it has none),
\* and the submission is the only outbound request: no status was fetched.
C18_SubmitFailureIsTerminal ==
  (job.responses >= 1 /\ ~job.submitOk) =>
     /\ pc = "done"
     /\ res = JsonError(500, Or(job.prediction.error,
                                "Replicate request failed"))
     /\ outbound = <<SubmitCall>>
     /\ StatusFetches = 0
     /\ job.responses = 1

C18_Witness ==
  /\ pc = "done"
  /\ job.route = "/api/refine"
  /\ job.responses = 1
  /\ ~job.submitOk
  /\ res = JsonError(500, "Invalid token")

\* C19: when the successful submission response already reports the status
\* failed or canceled, the request has ended with status 500 and the error
\* of the prediction (or "Replicate failed" when it has none), without any
\* wait (no time has elapsed) and without any status request.
C19_ImmediateFailureSkipsPolling ==
  (/\ job.submitOk
   /\ job.responses = 1
   /\ job.prediction.status \in {"failed", "canceled"}) =>
     /\ pc = "done"
     /\ res = JsonError(500, Or(job.prediction.error, "Replicate failed"))
     /\ job.elapsed = 0
     /\ outbound = <<SubmitCall>>
     /\ StatusFetches = 0

C19_Witness ==
  /\ pc = "done"
  /\ job.route = "/api/replicate"
  /\ job.submitOk
  /\ job.responses = 1
  /\ job.prediction.status = "canceled"
  /\ res = JsonError(500, "Replicate failed")

\* the request ended while the last prediction request, an answered one,
\* reported no terminal status
EndedUnfinished ==
  /\ pc = "done"
  /\ job.submitOk
  /\ job.prediction.status \notin {"succeeded", "failed", "canceled"}
  /\ job.responses = StatusFetches + 1

TimeoutError == JsonError(500, "Replicate request timed out")

\* C20: the handler waits for the next status request only while no more
\* than the ceiling of 120000 ms has elapsed, so at most 101 status
\* requests are made; a request that ended on an answered, non-terminal
\* status (of a body that names the status URL) ended with the error
\* "Replicate request timed out"; this error is given only then, after
\* more than the ceiling, and differs from the error of a failed
\* prediction; after the timeout nothing follows but the end of the request;
\* and, the timer firing and every status request being answered, the loop
\* always ends.
C20_PollingEndsByTimeout ==
  /\ [](/\ pc = "wait" => job.elapsed <= TimeoutMs
        /\ StatusFetches <= TimeoutMs \div PollWaitMs + 1
        /\ (EndedUnfinished /\ job.prediction.hasUrls) => res = TimeoutError
        /\ res = TimeoutError =>
             /\ EndedUnfinished
             /\ job.elapsed > TimeoutMs
             /\ res # JsonError(500, Or(job.prediction.error,
                                        "Replicate failed")))
  /\ [][res = TimeoutError => (pc' = "idle" /\ outbound' = <<>>)]_vars
  /\ (pc \in {"wait", "poll"}) ~> (pc = "done")

C20_Witness ==
  /\ pc = "done"
  /\ res = TimeoutError
  /\ job.prediction.status = "processing"
  /\ StatusFetches = 101
  /\ job.elapsed = 101 * PollWaitMs

\* the environment variable each operation needs, as a field of env
CredentialOf(route) ==
  CASE route = "/api/agent" -> "plannerKey"
    [] route = "/api/transcribe" -> "plannerKey"
    [] route \in {"/api/replicate", "/api/refine"} -> "replicateToken"
    [] route = "/api/weather" -> "weatherKey"
    [] route = "/api/unsplash" -> "unsplashKey"
    [] route = "/api/pexels" -> "pexelsKey"
    [] route \in {"/api/generate", "/api/generate_batch"} -> "openaiKey"
    [] OTHER -> ""

\* a request that passed the validation of its parameters is being served
\* while the credential of its operation is not set
MissingCredential ==
  /\ pc # "idle"
  /\ CredentialOf(req.route) # ""
  /\ ~env[CredentialOf(req.route)]
  /\ res.status # 400

\* C21: when the credential an operation needs is absent, the operation
\* fails with an internal error (status 500) at the point of use and makes
\* no outbound call with the missing credential.
C21_MissingCredentialFailsFast ==
  MissingCredential =>
    /\ outbound = <<>>
    /\ pc = "done"
    /\ res.status = 500

\* C22: the Intent Resolver never mutates the caller-supplied state: from
\* the request to the answer, through inferToolFromText and the tools it
\* infers, the state mapping stays equal to the one received.
C22_StateNeverMutated ==
  [][(pc # "idle" /\ pc' # "idle") => req'.state = req.state]_vars

\* a turn resolved by the heuristics ended with its tool executed, for a
\* state that has a ratio and no preferred ratio
C22_Witness ==
  /\ pc = "done"
  /\ inferred.kind = "tools"
  /\ res.status = 200
  /\ req.state.preferred_ratio = ""
  /\ req.state.ratio # ""

\* the tool names declared in the registry
RegistryNames == {tools[i].name : i \in 1..Len(tools)}

\* the names tried against the executor: the registry's, those of the
\* planner's calls, and near misses of the registry's
TriedNames ==
  RegistryNames
  \cup {toolCallName(c) : c \in CallPool}
  \cup {"", "search", "Search_Library", "search_library ", "generate",
        "refine", "weather", "get_weather", "setView"}

\* executeToolCall has a branch for the name: it does not fall through to
\* the final throw
Handled(name) ==
  ExecStart(FunctionCall("call_0", name, EmptyArgs)) # Throw("Unknown tool")

\* C23: the tool names the executor handles are exactly the names declared
\* in the registry sent to the planner, every name the heuristic resolver
\* emits is in the registry, and an executed call fails as unknown exactly
\* when its name is not in the registry.
C23_RegistryMatchesExecutor ==
  /\ {n \in TriedNames : Handled(n)} = RegistryNames
  /\ inferred.kind = "tools" =>
       \A i \in 1..Len(inferred.tools) : inferred.tools[i].name \in RegistryNames
  /\ \A i \in 1..Len(execLog) :
       execLog[i].outcome # "running" =>
         (execLog[i].error = "Unknown tool"
            <=> execLog[i].name \notin RegistryNames)

\* the heuristics resolved a historical-weather call and the executor ran it
C23_Witness ==
  /\ pc = "done"
  /\ path = "heuristic"
  /\ inferred.kind = "tools"
  /\ Len(execLog) = 1
  /\ execLog[1].name = "get_weather_history"
  /\ execLog[1].outcome = "returned"

\* every call the resolver inferred, and every call executed for it, has
\* the name given
InfersOnly(name) ==
  /\ inferred.kind \in {"reply", "tools"}
  /\ \A i \in 1..Len(inferred.tools) : inferred.tools[i].name = name
  /\ \A i \in 1..Len(execLog) : execLog[i].name = name

\* C24: the heuristic rules are evaluated in the order historical weather,
\* search, generation, with early return: a message with a history keyword
\* yields a clarifying reply or a get_weather_history call, never a
\* search_library or generate_ai call; a message matching the search rule
\* (a search keyword and no weather keyword) and no history keyword yields a
\* clarifying reply or a search_library call, never a generate_ai call,
\* whatever other keywords the message contains.
C24_RulesInFixedOrder ==
  Resolved =>
    /\ wantsHistory(Text) => InfersOnly("get_weather_history")
    /\ (/\ ~wantsHistory(Text)
        /\ wantsSearch(Text)
        /\ ~TestAny(Text, WeatherKeywords)) => InfersOnly("search_library")

\* a message with a history, a search and a generation keyword was resolved
\* and its call executed
C24_Witness ==
  /\ pc = "done"
  /\ Resolved
  /\ wantsHistory(Text)
  /\ wantsSearch(Text)
  /\ wantsGenerate(Text)
  /\ inferred.kind = "tools"
  /\ Len(execLog) = 1
  /\ res.status = 200

\* a message with a search and a generation keyword was resolved and its
\* call executed
C24_WitnessSearch ==
  /\ pc = "done"
  /\ Resolved
  /\ ~wantsHistory(Text)
  /\ wantsSearch(Text)
  /\ wantsGenerate(Text)
  /\ inferred.kind = "tools"
  /\ Len(execLog) = 1

\* the first ISO date (YYYY-MM-DD between word boundaries) of a text, ""
\* when it has none
FirstIsoDate(text) ==
  LET hits == {i \in 1..Len(text) : IsoAt(text, i)}
  IN IF hits = {} THEN ""
     ELSE LET first_ == MinOf(hits) IN SubSeq(text, first_, first_ + 9)

\* C25: in the historical-weather rule, when the message contains an
\* explicit ISO date together with an offset phrase, the date argument is the
\* (first) explicit ISO date and the clock is not consulted; a date 1, 2 or 7
\* days before today is used only when the message has no ISO date.
C25_IsoDateHasPriority ==
  (Resolved /\ inferred.kind = "tools"
     /\ inferred.tools[1].name = "get_weather_history") =>
    LET date == inferred.tools[1].args.date
        iso == FirstIsoDate(Trim(ToLowerCase(req.message)))
    IN /\ iso # "" =>
            /\ date = iso
            /\ clockRead = NoDate
       /\ iso = "" =>
            /\ clockRead # NoDate
            /\ TestAny(Text, OffsetPhrases)
            /\ DayNumber(DigitsValue(SubSeq(date, 1, 4)),
                         DigitsValue(SubSeq(date, 6, 7)),
                         DigitsValue(SubSeq(date, 9, 10)))
                 \in {DayNumber(clockRead.y, clockRead.m, clockRead.d) - n :
                        n \in {1, 2, 7}}
       /\ \A i \in 1..Len(execLog) : execLog[i].args.date = date

\* a message with an ISO date and "yesterday" was resolved and its call
\* executed with the ISO date
C25_Witness ==
  /\ pc = "done"
  /\ path = "heuristic"
  /\ Includes(Text, "yesterday")
  /\ Len(execLog) = 1
  /\ execLog[1].name = "get_weather_history"
  /\ execLog[1].args.date = "2024-01-05"
  /\ execLog[1].outcome = "returned"
  /\ clockRead = NoDate

\* the message contains the word weather, in English or in Chinese
MentionsWeather == Includes(Text, "weather") \/ Includes(Text, U5929 \o U6C14)

\* C26: a message that contains a search keyword and also a weather keyword
\* never resolves to a search_library call in the heuristic resolver, and
\* none is executed for it.
C26_WeatherSearchNotRouted ==
  (Resolved /\ wantsSearch(Text) /\ MentionsWeather) =>
    /\ \A i \in 1..Len(inferred.tools) :
         inferred.tools[i].name # "search_library"
    /\ \A i \in 1..Len(execLog) : execLog[i].name # "search_library"

\* "search the weather" was resolved: no rule applied and nothing ran
C26_Witness ==
  /\ pc = "done"
  /\ Resolved
  /\ wantsSearch(Text)
  /\ MentionsWeather
  /\ ~wantsHistory(Text)
  /\ inferred.kind = "null"
  /\ execLog = <<>>
  /\ res.status = 200

\* the message reaches the generation rule: it is not empty, the history
\* and the search rule do not apply, and it has a creation verb
ReachesGenerate ==
  /\ Resolved
  /\ Text # ""
  /\ ~wantsHistory(Text)
  /\ ~(wantsSearch(Text) /\ ~MentionsWeather)
  /\ wantsGenerate(Text)

\* C27: for every message that reaches the generation rule and whose text
\* is empty once the creation verbs are removed and the rest trimmed, the
\* resolver returns the clarifying reply "What should I generate?", which is
\* the answer of the turn, and no tool call is inferred or executed.
C27_EmptyPromptAsks ==
  (ReachesGenerate /\ Trim(RemoveAll(Text, GenerateKeywords)) = "") =>
    /\ inferred = InferReply("What should I generate?")
    /\ execLog = <<>>
    /\ toolResults = <<>>
    /\ \A i \in 1..Len(outbound) : outbound[i] = PlannerCall
    /\ pc = "done"
    /\ res = JsonReply(<<>>, "What should I generate?")

\* "make" was resolved
C27_Witness ==
  /\ pc = "done"
  /\ ReachesGenerate
  /\ Text = "make"
  /\ res.reply = "What should I generate?"

\* the ratio the claim gives a heuristic call: the preferred ratio of the
\* caller's state when it has one, "1:1" otherwise
PreferredOrSquare ==
  IF req.state.preferred_ratio # "" THEN req.state.preferred_ratio ELSE "1:1"

\* C28: every search_library call the heuristic resolver infers carries
\* ratio, and every generate_ai call aspect_ratio, equal to the preferred
\* ratio of the caller's state when it is present and to "1:1" otherwise.
C28_RatioPreferredOrSquare ==
  (Resolved /\ inferred.kind = "tools") =>
    \A i \in 1..Len(inferred.tools) :
      LET tool == inferred.tools[i]
      IN /\ tool.name = "search_library" => tool.args.ratio = PreferredOrSquare
         /\ tool.name = "generate_ai" =>
              tool.args.aspect_ratio = PreferredOrSquare

\* the request ended on a prediction observed in the status succeeded that
\* carries an output
EndedSucceeded(route) ==
  /\ pc = "done"
  /\ job.route = route
  /\ job.submitOk
  /\ job.prediction.status = "succeeded"
  /\ job.prediction.output.kind # "none"

\* the URL of an output item: the string itself, or the url of the object
UrlOf(item) == OutputString(item.url)

\* the URLs of an output of any shape, as a list
UrlsOf(output) ==
  IF output.kind = "array"
  THEN [n \in 1..Len(output.items) |-> UrlOf(output.items[n])]
  ELSE <<UrlOf(output)>>

\* C29: on terminal success of a generation job the adapter answers with
\* the output image URLs as an array, for every output shape: a single URL
\* string gives a one-element array, a single object with a url gives the
\* one-element array of its url, an array of URLs or objects gives the array
\* of their URLs.
C29_GenerationImagesArray ==
  EndedSucceeded("/api/replicate") =>
    /\ res.status = 200
    /\ res.body.images = UrlsOf(job.prediction.output)

\* C30: on terminal success of a refinement job the adapter answers with
\* image as a single URL string for every output shape (a URL, an object
\* with a url, an array of either), never with an array or an object.
C30_RefinementImageString ==
  EndedSucceeded("/api/refine") =>
    /\ res.status = 200
    /\ res.body.image.kind = "string"
    /\ res.body.image.url # ""

\* C31: the second (summary) planner call is issued only when at least one
\* tool call was executed in the turn and an id is available for an executed
\* call (a tool output can be handed to the planner); when the executed call
\* has no id, no second planner call is made.
C31_SummaryNeedsCallId ==
  PlannerCalls >= 2 =>
    /\ Len(toolResults) >= 1
    /\ Len(toolOutputs) >= 1

\* C32: after a tool call executed in the planner path and a summary call
\* that returned empty text, the reply of the turn is the deterministic reply
\* synthesized from the name and the result of the first tool, and no other
\* text.
C32_EmptySummaryGivesSynthesizedReply ==
  (/\ pc = "done"
   /\ path = "planner"
   /\ Len(toolResults) >= 1
   /\ second.status = "ok"
   /\ extractOutputText(second.data) = "") =>
     /\ res.hasReply
     /\ res.reply = plannerFallbackReply(toolResults)

\* C33: when the planner proposed no tool and the heuristics inferred
\* neither a tool nor a clarifying reply, the answer has an empty tools list
\* and its reply is the text of the planner when that is not empty, the
\* generic next-action prompt otherwise; no tool is executed and no second
\* planner call is made.
C33_NothingInferredGivesPlannerText ==
  (Resolved /\ inferred.kind = "null") =>
    LET replyText == extractOutputText(first)
    IN /\ pc = "done"
       /\ Len(extractToolCalls(first)) = 0
       /\ res.status = 200
       /\ res.hasReply
       /\ res.tools = <<>>
       /\ replyText # "" => res.reply = replyText
       /\ replyText = "" =>
            res.reply = "Got it. What would you like to do next?"
       /\ execLog = <<>>
       /\ outbound = <<PlannerCall>>
       /\ second = NoSecond

\* "hello" with a planner response without text and without tool
C33_Witness ==
  /\ pc = "done"
  /\ req.message = "hello"
  /\ inferred.kind = "null"
  /\ first.output = <<>>
  /\ first.output_text = ""
  /\ res.reply = "Got it. What would you like to do next?"

\* C34: the only automatic retry of a search-style adapter is a single retry
\* after a server-error response: the Unsplash adapter makes one upstream
\* request at most, the Pexels adapter two at most, and the second one only
\* after the first upstream response was a server error (a 5xx status).
C34_RetryOnlyAfterServerError ==
  /\ req.route = "/api/unsplash" => Len(outbound) <= 1
  /\ req.route = "/api/pexels" =>
       /\ Len(outbound) <= 2
       /\ Len(outbound) = 2 =>
            /\ Len(proxy.statuses) >= 1
            /\ proxy.statuses[1] >= 500

\* the status of the last prediction body received is a terminal one
TerminalObserved ==
  /\ job.responses >= 1
  /\ job.prediction.status \in {"succeeded", "failed", "canceled"}

\* the request was answered with images (/api/replicate) or an image
\* (/api/refine)
AnsweredWithImages ==
  /\ job.route \in JobRoutes
  /\ res.status = 200

\* C35: once a generation or refinement job is observed in a terminal status
\* (succeeded, failed, canceled) the handler has answered and no status
\* request is outstanding or made afterwards; the answer carries images only
\* when the last observed status is succeeded, so a response without a
\* recognised terminal status is never reported as success.
C35_TerminalStatusEndsPolling ==
  /\ TerminalObserved =>
       /\ pc = "done"
       /\ job.responses = StatusFetches + 1
  /\ AnsweredWithImages =>
       /\ job.submitOk
       /\ job.prediction.status = "succeeded"

\* a refinement ended in success on the second status request
C35_Witness ==
  /\ pc = "done"
  /\ job.route = "/api/refine"
  /\ StatusFetches = 2
  /\ job.responses = 3
  /\ job.prediction.status = "succeeded"
  /\ res.status = 200

\* C36: for every tool call executed in the planner path, the name and args
\* recorded in the tools entry of the response equal the name and arguments
\* that executeToolCall used, for every call shape the extractor accepts.
C36_RecordedCallMatchesExecuted ==
  path = "planner" =>
    /\ Len(toolResults) <= Len(execLog)
    /\ \A n \in 1..Len(toolResults) :
         /\ toolResults[n].name = execLog[n].name
         /\ toolResults[n].args = execLog[n].args

\* the positions from..to, in order
Positions(from, to) == [i \in 1..(to - from + 1) |-> from + i - 1]

\* a session request was handled in this step
Handles(route) == pc = "idle" /\ pc' = "done" /\ req'.route = route

\* C37: within one session, whatever the interleaving of /api/cmd and
\* /api/check, the commands are delivered by /api/check in the order in which
\* /api/cmd accepted them, each at most once (after every step the delivered
\* positions are 1..m and the queue holds m+1..n, and a delivering answer
\* carries the record at the head of the queue), and /api/check on an empty
\* queue answers command null and changes nothing.
C37_DeliveredInAcceptanceOrder ==
  [][/\ \A s \in DOMAIN sessions' :
          LET sess == sessions'[s]
              m == Len(sess.delivered)
              n == Len(sess.records)
          IN /\ m <= n
             /\ sess.delivered = Positions(1, m)
             /\ sess.queue = Positions(m + 1, n)
     /\ (Handles("/api/check") /\ req'.session \in DOMAIN sessions) =>
          LET old == sessions[req'.session]
              new == sessions'[req'.session]
          IN IF Len(old.queue) = 0
             THEN /\ res' = Json([command |-> Null])
                  /\ sessions' = sessions
             ELSE /\ new.delivered = Append(old.delivered, Head(old.queue))
                  /\ new.queue = Tail(old.queue)
                  /\ res' = Json([command |-> new.records[Head(old.queue)]])
                  /\ \A t \in DOMAIN sessions \ {req'.session} :
                       sessions'[t] = sessions[t]]_vars

\* the second of three accepted commands was delivered after the first
C37_Witness ==
  /\ pc = "done"
  /\ req.route = "/api/check"
  /\ "S1" \in DOMAIN sessions
  /\ Len(sessions["S1"].records) = 3
  /\ sessions["S1"].delivered = <<1, 2>>
  /\ sessions["S1"].queue = <<3>>
  /\ res = Json([command |-> sessions["S1"].records[2]])

\* the positions a queue holds
Queued(sess) == {sess.queue[i] : i \in 1..Len(sess.queue)}

\* C38: the status of a command is "sent" from its acceptance by /api/cmd
\* until /api/check dequeues it and "executed" from then on: a command in the
\* queue has status sent, whatever status field its payload carried, a
\* command that left the queue has status executed, and no step takes a
\* status from executed back to sent.
C38_StatusSentThenExecuted ==
  [][/\ \A s \in DOMAIN sessions' :
          \A n \in 1..Len(sessions'[s].records) :
            sessions'[s].records[n].status =
              IF n \in Queued(sessions'[s]) THEN "sent" ELSE "executed"
     /\ \A s \in DOMAIN sessions :
          /\ s \in DOMAIN sessions'
          /\ \A n \in 1..Len(sessions[s].records) :
               sessions[s].records[n].status = "executed" =>
                 /\ n <= Len(sessions'[s].records)
                 /\ sessions'[s].records[n].status = "executed"]_vars

\* a command whose payload carried status "executed" waits in the queue with
\* status sent, behind a command that was delivered
C38_Witness ==
  /\ "S1" \in DOMAIN sessions
  /\ Len(sessions["S1"].records) = 2
  /\ sessions["S1"].queue = <<2>>
  /\ sessions["S1"].records[1].status = "executed"
  /\ sessions["S1"].records[2].id = "c1"
  /\ sessions["S1"].records[2].status = "sent"

\* C39: for every id that /api/cmd returned, /api/status with that session
\* and id reports the status of the command that this /api/cmd call created,
\* after any later /api/cmd and /api/check requests, also when the payload of
\* a later command carries an id field equal to that id.
C39_StatusOfReturnedId ==
  \A s \in DOMAIN sessions :
    \A n \in 1..Len(sessions[s].records) :
      StatusAnswer(sessions, s, CommandId(n)) =
        Json([status |-> sessions[s].records[n].status])

\* the status of the first command was asked for after the delivery of a
\* later command whose payload carried the id of the first
C39_Witness ==
  /\ pc = "done"
  /\ req.route = "/api/status"
  /\ req.id = "c1"
  /\ "S1" \in DOMAIN sessions
  /\ Len(sessions["S1"].records) = 3
  /\ sessions["S1"].commands["c1"] = 2
  /\ sessions["S1"].queue = <<3>>
  /\ res = Json([status |-> "executed"])

SessionRoutes ==
  {"/api/session", "/api/session/:id", "/api/cmd", "/api/check", "/api/status"}

\* C40: a session request that ends in an error (400 or 404), and every
\* /api/status and /api/session/:id request, leaves the session store as it
\* was: no session created, no command enqueued or dequeued, no status
\* changed.
C40_ErrorsLeaveStoreUnchanged ==
  [][(/\ pc = "idle" /\ pc' = "done"
      /\ req'.route \in SessionRoutes
      /\ \/ res'.status >= 400
         \/ req'.route \in {"/api/status", "/api/session/:id"})
       => sessions' = sessions]_vars

\* /api/cmd for an unknown session answered 404 while a command waits in the
\* queue of the existing session
C40_Witness ==
  /\ pc = "done"
  /\ req.route = "/api/cmd"
  /\ req.session = "S9"
  /\ res.status = 404
  /\ "S1" \in DOMAIN sessions
  /\ Len(sessions["S1"].queue) = 2
  /\ Len(sessions["S1"].delivered) = 1

====
